---- MODULE Spec2Model ----
(***************************************************************************)
(* State-machine model of the airline tools of tau-b                       *)
(* (src/tools/*.py): the mutable Database `data` (users, reservations,     *)
(* flights as nested mappings) and the tool functions that read or mutate  *)
(* it.  Every tool is an operator from (arguments, Database) to            *)
(* [res, data]: the returned string and the Database it leaves behind.     *)
(* A Python fault (an uncaught KeyError) is a result of kind "fault".      *)
(* The Environment that owns the Database and a Task (reset, step and the  *)
(* Reward Calculator) and the loop that drives it are SpecEnv; the solve   *)
(* coroutines of src/agents.py on one event loop are SpecLoop.             *)
(***************************************************************************)
EXTENDS Integers, Sequences, FiniteSets, TLC

VARIABLES
    data,   \* the Database: [users, reservations, flights]
    last,   \* the last tool call: [op, args, res, pre] (pre = Database before it)
    steps,  \* number of tool calls made in this episode
    booked, \* history: number of book_reservation calls that succeeded in this episode
    env,    \* the Environment's episode state: [phase, task_index, tasks, log, reward, done, ...]
    loop    \* the solve coroutines of the samples that share the Environment

vars == <<data, last, steps, booked, env, loop>>

------------------------------------------------------------------------------
(* Bounds of the model *)

\* tool calls per episode in Spec (wide argument sets)
MaxSteps == 2
\* tool calls per episode in SpecPool (booking sequences)
MaxPoolSteps == 4
\* tool calls per episode in SpecCertificate (certificates sent and spent)
MaxCertificateSteps == 4
\* characters of an expression in SpecCalculate
MaxExprLen == 4
\* reset and step calls on the Environment in SpecEnv
MaxEnvCalls == 4
\* samples that one solver is run for in SpecLoop
NumSamples == 2
\* lexemes of a message content in SpecReact, for the contents drawn exhaustively
MaxContentLen == 3
\* tool calls per episode in SpecCancel (cancellations repeated)
MaxCancelSteps == 4
\* max_steps of the solver in SpecLoop (30 by default, agents.py line 54)
MaxLoopSteps == 2

------------------------------------------------------------------------------
(* Python dict / list helpers *)

\* d[k] = v  (insert or overwrite)
DictSet(d, k, v) == [x \in DOMAIN d \cup {k} |-> IF x = k THEN v ELSE d[x]]

\* del d[k]
DictDel(d, k) == [x \in DOMAIN d \ {k} |-> d[x]]

\* mutant: only the first payment is counted
SumAmounts_FirstOnly(s) == IF s = <<>> THEN 0 ELSE s[1].amount

\* sum(payment["amount"] for payment in payment_methods)
RECURSIVE SumAmounts(_)
SumAmounts(s) == IF s = <<>> THEN 0 ELSE s[1].amount + SumAmounts(Tail(s))

------------------------------------------------------------------------------
(* Results of a tool call *)

\* json.dumps(value): the JSON text of a record
JsonDumps(v) == [kind |-> "json", value |-> v]

\* an "Error: ..." string; text is the message followed by the values formatted into it
ErrorString(text) == [kind |-> "error", text |-> text]

\* a plain (non-JSON, non-error) string
PlainString(text) == [kind |-> "text", text |-> text]

\* an exception that propagates out of the tool
Fault(exc) == [kind |-> "fault", exc |-> exc]

------------------------------------------------------------------------------
(* The seed Database *)

SeedFlights ==
    [ HAT001 |->
        [ flight_number |-> "HAT001", origin |-> "SFO", destination |-> "JFK",
          dates |->
            ( "2024-05-20" :> [ status |-> "available",
                        available_seats |-> [basic_economy |-> 2, economy |-> 2, business |-> 2],
                        prices |-> [basic_economy |-> 30, economy |-> 50, business |-> 100] ] )
            @@ ( "2024-05-21" :> [ status |-> "cancelled" ] ) ],
      HAT002 |->
        [ flight_number |-> "HAT002", origin |-> "SFO", destination |-> "JFK",
          dates |->
            ( "2024-05-20" :> [ status |-> "available",
                        available_seats |-> [basic_economy |-> 1, economy |-> 1, business |-> 0],
                        prices |-> [basic_economy |-> 10, economy |-> 20, business |-> 60] ] ) ],
      HAT003 |->
        [ flight_number |-> "HAT003", origin |-> "JFK", destination |-> "SFO",
          dates |->
            ( "2024-05-20" :> [ status |-> "landed" ] )
            @@ ( "2024-05-21" :> [ status |-> "available",
                        available_seats |-> [basic_economy |-> 1, economy |-> 1, business |-> 1],
                        prices |-> [basic_economy |-> 30, economy |-> 50, business |-> 100] ] ) ] ]

Ann == [first_name |-> "Ann", last_name |-> "Lee", dob |-> "1990-01-01"]
Bob == [first_name |-> "Bob", last_name |-> "Lee", dob |-> "1992-02-02"]

SeedReservations ==
    [ ZFA04Y |->
        [ reservation_id |-> "ZFA04Y", user_id |-> "ann_lee_1",
          origin |-> "SFO", destination |-> "JFK", flight_type |-> "one_way",
          cabin |-> "economy",
          flights |-> << [flight_number |-> "HAT001", date |-> "2024-05-20", price |-> 50,
                          origin |-> "SFO", destination |-> "JFK"] >>,
          passengers |-> << Ann >>,
          payment_history |-> << [payment_id |-> "credit_card_1", amount |-> 30],
                                 [payment_id |-> "gift_card_1", amount |-> 20] >>,
          created_at |-> "2024-05-01T10:00:00",
          total_baggages |-> 0, nonfree_baggages |-> 0, insurance |-> "no" ] ]

SeedUsers ==
    [ ann_lee_1 |->
        [ name |-> Ann,
          payment_methods |->
            [ credit_card_1 |-> [source |-> "credit_card", brand |-> "visa", id |-> "credit_card_1"],
              gift_card_1   |-> [source |-> "gift_card", amount |-> 80, id |-> "gift_card_1"],
              certificate_1 |-> [source |-> "certificate", amount |-> 60, id |-> "certificate_1"] ],
          reservations |-> << "ZFA04Y" >> ],
      bob_lee_2 |->
        [ name |-> Bob,
          payment_methods |->
            [ credit_card_2 |-> [source |-> "credit_card", brand |-> "visa", id |-> "credit_card_2"] ],
          reservations |-> << >> ] ]

\* load_data(): the three collections
load_data == [flights |-> SeedFlights, reservations |-> SeedReservations, users |-> SeedUsers]

------------------------------------------------------------------------------
(* book_reservation, src/tools/book_reservation.py *)

\* mutant: the second candidate is skipped
NextReservationId_SkipsSecond(reservations) ==
    IF "HATHAT" \notin DOMAIN reservations THEN "HATHAT" ELSE "HATHAV"

\* lines 50-55: the reservation ID a booking is stored under
NextReservationId(reservations) ==
    IF "HATHAT" \notin DOMAIN reservations THEN "HATHAT"
    ELSE IF "HATHAU" \notin DOMAIN reservations THEN "HATHAU"
    ELSE "HATHAV"

\* lines 76-94, one leg: the error it returns, or the leg with price, origin and
\* destination filled in
CheckFlight(flight, cabin, passengers, d) ==
    LET flight_number == flight.flight_number IN
    IF flight_number \notin DOMAIN d.flights
      THEN [ok |-> FALSE, res |-> ErrorString(<<"Error: flight not found", flight_number>>)]
    ELSE LET flight_data == d.flights[flight_number] IN
    IF flight.date \notin DOMAIN flight_data.dates
      THEN [ok |-> FALSE,
            res |-> ErrorString(<<"Error: flight not found on date", flight_number, flight.date>>)]
    ELSE LET flight_date_data == flight_data.dates[flight.date] IN
    IF flight_date_data.status # "available"
      THEN [ok |-> FALSE,
            res |-> ErrorString(<<"Error: flight not available on date", flight_number, flight.date>>)]
    ELSE IF flight_date_data.available_seats[cabin] < Len(passengers)
      THEN [ok |-> FALSE, res |-> ErrorString(<<"Error: not enough seats on flight", flight_number>>)]
    ELSE [ok |-> TRUE,
          flight |-> [flight_number |-> flight_number, date |-> flight.date,
                      price |-> flight_date_data.prices[cabin],
                      origin |-> flight_data.origin,
                      destination |-> flight_data.destination]]

\* lines 74-94: the loop over the legs; stops at the first error, else returns the
\* filled-in legs and the sum of price * len(passengers)
RECURSIVE PriceFlights(_, _, _, _)
PriceFlights(flights, cabin, passengers, d) ==
    IF flights = <<>> THEN [ok |-> TRUE, flights |-> <<>>, total_price |-> 0]
    ELSE LET c == CheckFlight(Head(flights), cabin, passengers, d) IN
         IF ~c.ok THEN c
         ELSE LET r == PriceFlights(Tail(flights), cabin, passengers, d) IN
              IF ~r.ok THEN r
              ELSE [ok |-> TRUE, flights |-> <<c.flight>> \o r.flights,
                    total_price |-> c.flight.price * Len(passengers) + r.total_price]

\* lines 74-99: total price of the legs plus insurance and baggage surcharges
TotalPrice(legs_price, passengers, nonfree_baggages, insurance) ==
    legs_price
    + (IF insurance = "yes" THEN 30 * Len(passengers) ELSE 0)
    + 50 * nonfree_baggages

\* lines 102-110: the loop validating the payment methods; the first error, if any
RECURSIVE ValidatePayments(_, _)
ValidatePayments(payment_methods, user) ==
    IF payment_methods = <<>> THEN [ok |-> TRUE]
    ELSE LET payment_id == Head(payment_methods).payment_id
             amount == Head(payment_methods).amount
         IN
         IF payment_id \notin DOMAIN user.payment_methods
           THEN [ok |-> FALSE,
                 res |-> ErrorString(<<"Error: payment method not found", payment_id>>)]
         ELSE IF user.payment_methods[payment_id].source \in {"gift_card", "certificate"}
                 /\ user.payment_methods[payment_id].amount < amount
           THEN [ok |-> FALSE,
                 res |-> ErrorString(<<"Error: not enough balance in payment method", payment_id>>)]
         ELSE ValidatePayments(Tail(payment_methods), user)

\* lines 116-122: the loop deducting the payments from user["payment_methods"] (pm);
\* user["payment_methods"][payment_id] raises KeyError once payment_id was deleted
RECURSIVE DeductPayments(_, _)
DeductPayments(pm, payment_methods) ==
    IF payment_methods = <<>> THEN [pm |-> pm, fault |-> FALSE]
    ELSE LET payment_id == Head(payment_methods).payment_id
             amount == Head(payment_methods).amount
         IN
         IF payment_id \notin DOMAIN pm THEN [pm |-> pm, fault |-> TRUE]
         ELSE IF pm[payment_id].source = "gift_card"
           THEN DeductPayments(
                  [pm EXCEPT ![payment_id] =
                      DictSet(pm[payment_id], "amount", pm[payment_id].amount - amount)],
                  Tail(payment_methods))
         ELSE IF pm[payment_id].source = "certificate"
           THEN DeductPayments(DictDel(pm, payment_id), Tail(payment_methods))
         ELSE DeductPayments(pm, Tail(payment_methods))

\* lines 43-127
book_reservation(user_id, origin, destination, flight_type, cabin, flights, passengers, payment_methods, total_baggages, nonfree_baggages, insurance, d) ==
    IF user_id \notin DOMAIN d.users
      THEN [res |-> ErrorString(<<"Error: user not found">>), data |-> d]
    ELSE
    LET user == d.users[user_id]
        reservation_id == NextReservationId(d.reservations)
        priced == PriceFlights(flights, cabin, passengers, d)
    IN
    IF ~priced.ok THEN [res |-> priced.res, data |-> d]
    ELSE
    LET total_price == TotalPrice(priced.total_price, passengers, nonfree_baggages, insurance)
        reservation ==
            [ reservation_id |-> reservation_id, user_id |-> user_id,
              origin |-> origin, destination |-> destination,
              flight_type |-> flight_type, cabin |-> cabin,
              flights |-> priced.flights, passengers |-> passengers,
              payment_history |-> payment_methods,
              created_at |-> "2024-05-15T15:00:00",
              total_baggages |-> total_baggages,
              nonfree_baggages |-> nonfree_baggages, insurance |-> insurance ]
        valid == ValidatePayments(payment_methods, user)
    IN
    IF ~valid.ok THEN [res |-> valid.res, data |-> d]
    ELSE IF SumAmounts(payment_methods) # total_price
      THEN [res |-> ErrorString(<<"Error: payment amount does not add up",
                                   total_price, SumAmounts(payment_methods)>>),
            data |-> d]
    ELSE
    LET deducted == DeductPayments(user.payment_methods, payment_methods)
        paid == [d EXCEPT !.users[user_id].payment_methods = deducted.pm]
    IN
    IF deducted.fault THEN [res |-> Fault("KeyError"), data |-> paid]
    ELSE [res |-> JsonDumps(reservation),
          data |-> [paid EXCEPT
                      !.reservations = DictSet(@, reservation_id, reservation),
                      !.users[user_id].reservations = Append(@, reservation_id)]]

------------------------------------------------------------------------------
(* cancel_reservation, src/tools/cancel_reservation.py *)

\* mutant: the refund repeats the amount instead of negating it
RECURSIVE Refunds_NotNegated(_)
Refunds_NotNegated(payment_history) ==
    IF payment_history = <<>> THEN <<>>
    ELSE << [payment_id |-> Head(payment_history).payment_id,
             amount |-> Head(payment_history).amount] >>
         \o Refunds_NotNegated(Tail(payment_history))

\* lines 26-31: one refund entry per payment entry, with the amount negated
RECURSIVE Refunds(_)
Refunds(payment_history) ==
    IF payment_history = <<>> THEN <<>>
    ELSE << [payment_id |-> Head(payment_history).payment_id,
             amount |-> -Head(payment_history).amount] >>
         \o Refunds(Tail(payment_history))

\* mutant: the cancelled reservation is also taken off its user's reservations
cancel_reservation_Unlists(reservation_id, d) ==
    IF reservation_id \notin DOMAIN d.reservations
      THEN [res |-> ErrorString(<<"Error: reservation not found">>), data |-> d]
    ELSE
    LET reservation == d.reservations[reservation_id]
        cancelled == DictSet(DictSet(reservation, "payment_history",
                                     reservation.payment_history
                                        \o Refunds(reservation.payment_history)),
                             "status", "cancelled")
        Other(r) == r # reservation_id
    IN [res |-> JsonDumps(cancelled),
        data |-> [d EXCEPT !.reservations[reservation_id] = cancelled,
                           !.users[reservation.user_id].reservations = SelectSeq(@, Other)]]

\* mutant: a reservation that is already cancelled is returned as it is
cancel_reservation_Idempotent(reservation_id, d) ==
    IF reservation_id \notin DOMAIN d.reservations
      THEN [res |-> ErrorString(<<"Error: reservation not found">>), data |-> d]
    ELSE
    LET reservation == d.reservations[reservation_id]
        cancelled == DictSet(DictSet(reservation, "payment_history",
                                     reservation.payment_history
                                        \o Refunds(reservation.payment_history)),
                             "status", "cancelled")
    IN IF "status" \in DOMAIN reservation /\ reservation.status = "cancelled"
         THEN [res |-> JsonDumps(reservation), data |-> d]
         ELSE [res |-> JsonDumps(cancelled),
               data |-> [d EXCEPT !.reservations[reservation_id] = cancelled]]

\* lines 19-35
cancel_reservation(reservation_id, d) ==
    IF reservation_id \notin DOMAIN d.reservations
      THEN [res |-> ErrorString(<<"Error: reservation not found">>), data |-> d]
    ELSE
    LET reservation == d.reservations[reservation_id]
        refunds == Refunds(reservation.payment_history)
        cancelled == DictSet(DictSet(reservation, "payment_history",
                                     reservation.payment_history \o refunds),
                             "status", "cancelled")
    IN [res |-> JsonDumps(cancelled),
        data |-> [d EXCEPT !.reservations[reservation_id] = cancelled]]

------------------------------------------------------------------------------
(* get_user_details, get_reservation_details *)

\* mutant: the record is taken out of the collection (users.pop) instead of read
get_user_details_Pops(user_id, d) ==
    IF user_id \in DOMAIN d.users
      THEN [res |-> JsonDumps(d.users[user_id]),
            data |-> [d EXCEPT !.users = DictDel(@, user_id)]]
      ELSE [res |-> ErrorString(<<"Error: user not found">>), data |-> d]

\* src/tools/get_user_details.py lines 19-22
get_user_details(user_id, d) ==
    IF user_id \in DOMAIN d.users
      THEN [res |-> JsonDumps(d.users[user_id]), data |-> d]
      ELSE [res |-> ErrorString(<<"Error: user not found">>), data |-> d]

\* mutant: an unknown reservation ID is entered into the reservations
get_reservation_details_SetDefault(reservation_id, d) ==
    IF reservation_id \in DOMAIN d.reservations
      THEN [res |-> JsonDumps(d.reservations[reservation_id]), data |-> d]
      ELSE [res |-> ErrorString(<<"Error: reservation not found">>),
            data |-> [d EXCEPT !.reservations =
                        DictSet(@, reservation_id,
                                [reservation_id |-> reservation_id, user_id |-> "",
                                 payment_history |-> <<>>])]]

\* src/tools/get_reservation_details.py lines 19-22
get_reservation_details(reservation_id, d) ==
    IF reservation_id \in DOMAIN d.reservations
      THEN [res |-> JsonDumps(d.reservations[reservation_id]), data |-> d]
      ELSE [res |-> ErrorString(<<"Error: reservation not found">>), data |-> d]

------------------------------------------------------------------------------
(* search_direct_flight, src/tools/search_direct_flight.py *)

\* the order in which flights.values() yields the flights (the order of the keys
\* in the loaded mapping)
FlightOrder == <<"HAT001", "HAT002", "HAT003">>

\* lines 30-31: the flight without "dates", updated with the fields of the date
FlightResult(flight, date) ==
    LET date_data == flight.dates[date] IN
    [k \in (DOMAIN flight \ {"dates"}) \cup DOMAIN date_data |->
        IF k \in DOMAIN date_data THEN date_data[k] ELSE flight[k]]

\* mutant: the status of the date is not looked at
FlightMatches_AnyStatus(flight, origin, destination, date) ==
    /\ flight.origin = origin
    /\ flight.destination = destination
    /\ date \in DOMAIN flight.dates

\* lines 25-28: the filter
FlightMatches(flight, origin, destination, date) ==
    /\ flight.origin = origin
    /\ flight.destination = destination
    /\ date \in DOMAIN flight.dates
    /\ flight.dates[date].status = "available"

\* lines 24-32: the loop, over the flights numbered order[i..]
RECURSIVE SearchLoop(_, _, _, _, _)
SearchLoop(order, origin, destination, date, flights) ==
    IF order = <<>> THEN <<>>
    ELSE LET flight == flights[Head(order)]
             rest == SearchLoop(Tail(order), origin, destination, date, flights)
         IN IF FlightMatches(flight, origin, destination, date)
              THEN <<FlightResult(flight, date)>> \o rest
              ELSE rest

\* lines 21-35
search_direct_flight(origin, destination, date, d) ==
    [res |-> JsonDumps(SearchLoop(FlightOrder, origin, destination, date, d.flights)),
     data |-> d]

------------------------------------------------------------------------------
(* send_certificate, src/tools/send_certificate.py *)

\* line 26: the candidate IDs, in the order they are tried
CertificateIds == <<"certificate_3221322", "certificate_3221323", "certificate_3221324">>

\* mutant: the candidates are tried from the last one
NextCertificateId_FromLast(payment_methods) ==
    IF CertificateIds[3] \notin DOMAIN payment_methods THEN CertificateIds[3]
    ELSE IF CertificateIds[2] \notin DOMAIN payment_methods THEN CertificateIds[2]
    ELSE IF CertificateIds[1] \notin DOMAIN payment_methods THEN CertificateIds[1]
    ELSE "none"

\* lines 26-28: the first candidate that is not among the payment methods, or
\* "none" when the loop ends without finding one
NextCertificateId(payment_methods) ==
    IF CertificateIds[1] \notin DOMAIN payment_methods THEN CertificateIds[1]
    ELSE IF CertificateIds[2] \notin DOMAIN payment_methods THEN CertificateIds[2]
    ELSE IF CertificateIds[3] \notin DOMAIN payment_methods THEN CertificateIds[3]
    ELSE "none"

\* lines 19-36
send_certificate(user_id, amount, d) ==
    IF user_id \notin DOMAIN d.users
      THEN [res |-> ErrorString(<<"Error: user not found">>), data |-> d]
    ELSE
    LET user == d.users[user_id]
        payment_id == NextCertificateId(user.payment_methods)
    IN
    IF payment_id = "none"
      THEN [res |-> ErrorString(<<"Error: No available certificate slots">>), data |-> d]
    ELSE [res |-> PlainString(<<"Certificate added to user with amount",
                                payment_id, user_id, amount>>),
          data |-> [d EXCEPT !.users[user_id].payment_methods =
                       DictSet(@, payment_id,
                               [source |-> "certificate", amount |-> amount,
                                id |-> payment_id])]]

------------------------------------------------------------------------------
(* calculate, src/tools/calculate.py.  An expression is the sequence of its
   characters.  eval() is modelled for the Python expressions the allowed
   characters can spell: number literals, unary + and -, the binary operators
   + - * / // **, parentheses, the empty tuple () and calls f(...).  Numbers are
   exact fractions n/d. *)

\* mutant: a letter is allowed too
AllowedChars_WithLetter ==
    {"0", "1", "2", "3", "4", "5", "6", "7", "8", "9",
     "+", "-", "*", "/", "(", ")", ".", " ", "a"}

\* line 12: the characters of "0123456789+-*/(). "
AllowedChars ==
    {"0", "1", "2", "3", "4", "5", "6", "7", "8", "9",
     "+", "-", "*", "/", "(", ")", ".", " "}

DigitChars == {"0", "1", "2", "3", "4", "5", "6", "7", "8", "9"}

DigitValue ==
    ("0" :> 0) @@ ("1" :> 1) @@ ("2" :> 2) @@ ("3" :> 3) @@ ("4" :> 4)
    @@ ("5" :> 5) @@ ("6" :> 6) @@ ("7" :> 7) @@ ("8" :> 8) @@ ("9" :> 9)

\* Python values: an int or a float n/d (d > 0), the empty tuple, Ellipsis (...),
\* a complex number, or a float that is not a fraction the model computes ("approx")
IntValue(n) == [t |-> "int", n |-> n, d |-> 1]
FloatValue(n, d) == [t |-> "float", n |-> n, d |-> d]
TupleValue == [t |-> "tuple", n |-> 0, d |-> 1]
EllipsisValue == [t |-> "ellipsis", n |-> 0, d |-> 1]
ComplexValue == [t |-> "complex", n |-> 0, d |-> 1]
ApproxValue == [t |-> "approx", n |-> 1, d |-> 1]

RECURSIVE IPow(_, _)
IPow(b, e) == IF e = 0 THEN 1 ELSE b * IPow(b, e - 1)

\* tokens
NumToken(v) == [k |-> "num", v |-> v]
OpToken(s) == [k |-> "op", s |-> s]
NameToken == [k |-> "name"]
BadToken == [k |-> "bad"]

Drop(chars, k) == SubSeq(chars, k + 1, Len(chars))

\* the number of digits chars starts with
RECURSIVE DigitRun(_)
DigitRun(chars) ==
    IF chars # <<>> /\ Head(chars) \in DigitChars THEN 1 + DigitRun(Tail(chars)) ELSE 0

\* the decimal value of the digits chars[1..k]
RECURSIVE DigitsValue(_, _)
DigitsValue(chars, k) ==
    IF k = 0 THEN 0 ELSE 10 * DigitsValue(chars, k - 1) + DigitValue[chars[k]]

\* the number literal chars starts with: digits, optionally a point and digits; a
\* lone point and an integer with a leading zero (other than zero) are no literals
NumberLiteral(chars) ==
    LET i == DigitRun(chars)
        point == i < Len(chars) /\ chars[i + 1] = "."
        f == IF point THEN DigitRun(Drop(chars, i + 1)) ELSE 0
    IN IF point
         THEN IF i = 0 /\ f = 0 THEN [tok |-> BadToken, len |-> 1]
              ELSE [tok |-> NumToken(FloatValue(
                                DigitsValue(chars, i) * IPow(10, f)
                                   + DigitsValue(Drop(chars, i + 1), f),
                                IPow(10, f))),
                    len |-> i + 1 + f]
         ELSE IF i > 1 /\ chars[1] = "0" /\ DigitsValue(chars, i) # 0
                THEN [tok |-> BadToken, len |-> i]
                ELSE [tok |-> NumToken(IntValue(DigitsValue(chars, i))), len |-> i]

\* the tokens of the expression; spaces separate tokens, three points are Ellipsis
RECURSIVE Lex(_)
Lex(chars) ==
    IF chars = <<>> THEN <<>>
    ELSE LET c == Head(chars) IN
    IF c = " " THEN Lex(Tail(chars))
    ELSE IF c = "." /\ ~(Len(chars) > 1 /\ chars[2] \in DigitChars)
                  /\ Len(chars) > 2 /\ chars[2] = "." /\ chars[3] = "."
      THEN <<NumToken(EllipsisValue)>> \o Lex(Drop(chars, 3))
    ELSE IF c \in DigitChars \cup {"."}
      THEN LET lit == NumberLiteral(chars) IN <<lit.tok>> \o Lex(Drop(chars, lit.len))
    ELSE IF c \in {"*", "/"} /\ Len(chars) > 1 /\ chars[2] = c
      THEN <<OpToken(IF c = "*" THEN "**" ELSE "//")>> \o Lex(Drop(chars, 2))
    ELSE IF c \in {"+", "-", "*", "/", "(", ")"}
      THEN <<OpToken(c)>> \o Lex(Tail(chars))
    ELSE <<NameToken>> \o Lex(Tail(chars))

IsOp(toks, ops) == toks # <<>> /\ Head(toks).k = "op" /\ Head(toks).s \in ops

\* the outcome of an operation: a value, or the exception it raises
Value(v) == [exc |-> "", v |-> v]
Raises(exc) == [exc |-> exc, v |-> IntValue(0)]

IsNumber(x) == x.t \in {"int", "float"}
IsZero(x) == IsNumber(x) /\ x.n = 0
NumberValue(t, n, d) == IF d < 0 THEN [t |-> t, n |-> -n, d |-> -d] ELSE [t |-> t, n |-> n, d |-> d]
ResultType(x, y) == IF x.t = "int" /\ y.t = "int" THEN "int" ELSE "float"

\* the number is one a binary float holds exactly; the floor of a quotient of
\* other floats depends on their binary rounding, which the model does not compute
IsBinaryFraction(x) == \E k \in 0..10 : (x.n * IPow(2, k)) % x.d = 0

\* x ** y for numbers
Power(x, y) ==
    IF y.n % y.d = 0
      THEN LET e == y.n \div y.d IN
           IF e >= 0 THEN Value(NumberValue(ResultType(x, y), IPow(x.n, e), IPow(x.d, e)))
           ELSE IF x.n = 0 THEN Raises("ZeroDivisionError")
           ELSE Value(NumberValue("float", IPow(x.d, -e), IPow(x.n, -e)))
    ELSE IF x.n = 0
      THEN IF y.n > 0 THEN Value(FloatValue(0, 1)) ELSE Raises("ZeroDivisionError")
    ELSE IF x.n = x.d THEN Value(FloatValue(1, 1))
    ELSE IF x.n < 0 THEN Value(ComplexValue)
    ELSE Value(ApproxValue)

\* x op y for numbers
Arithmetic(op, x, y) ==
    LET t == ResultType(x, y) IN
    CASE op = "+" -> Value(NumberValue(t, x.n * y.d + y.n * x.d, x.d * y.d))
      [] op = "-" -> Value(NumberValue(t, x.n * y.d - y.n * x.d, x.d * y.d))
      [] op = "*" -> Value(NumberValue(t, x.n * y.n, x.d * y.d))
      [] op = "/" -> IF y.n = 0 THEN Raises("ZeroDivisionError")
                     ELSE Value(NumberValue("float", x.n * y.d, x.d * y.n))
      [] op = "//" -> IF y.n = 0 THEN Raises("ZeroDivisionError")
                      ELSE IF ~IsBinaryFraction(x) \/ ~IsBinaryFraction(y)
                        THEN Value(ApproxValue)
                      ELSE LET q == NumberValue(t, x.n * y.d, x.d * y.n)
                           IN Value(NumberValue(t, q.n \div q.d, 1))
      [] op = "**" -> Power(x, y)

\* x op y
BinaryOp(op, x, y) ==
    IF x.t = "ellipsis" \/ y.t = "ellipsis" THEN Raises("TypeError")
    ELSE IF x.t = "tuple" \/ y.t = "tuple"
      THEN IF op = "+" /\ x.t = "tuple" /\ y.t = "tuple" THEN Value(TupleValue)
           ELSE IF op = "*" /\ {x.t, y.t} = {"tuple", "int"} THEN Value(TupleValue)
           ELSE Raises("TypeError")
    ELSE IF x.t = "complex" \/ y.t = "complex"
      THEN IF op = "//" THEN Raises("TypeError")
           ELSE IF op = "/" /\ IsZero(y) THEN Raises("ZeroDivisionError")
           ELSE Value(ComplexValue)
    ELSE IF x.t = "approx" \/ y.t = "approx"
      THEN IF op \in {"/", "//"} /\ IsZero(y) THEN Raises("ZeroDivisionError")
           ELSE Value(ApproxValue)
    ELSE Arithmetic(op, x, y)

\* op x
UnaryOp(op, x) ==
    IF x.t \in {"tuple", "ellipsis"} THEN Raises("TypeError")
    ELSE IF op = "-" /\ IsNumber(x) THEN Value(NumberValue(x.t, -x.n, x.d))
    ELSE Value(x)

\* The parser and evaluator.  A result is [syn, exc, v, rest]: syn is FALSE when
\* the tokens are no Python expression (SyntaxError at compile time, before
\* anything is evaluated); else exc is the first exception raised in evaluation
\* order ("" if none), v the value and rest the tokens not yet read.
SyntaxError == [syn |-> FALSE, exc |-> "SyntaxError", v |-> IntValue(0), rest |-> <<>>]
Parsed(outcome, rest) == [syn |-> TRUE, exc |-> outcome.exc, v |-> outcome.v, rest |-> rest]

\* left op right, the operands evaluated left to right
Combine(op, left, right) ==
    IF left.exc # "" THEN Parsed(Raises(left.exc), right.rest)
    ELSE IF right.exc # "" THEN Parsed(Raises(right.exc), right.rest)
    ELSE Parsed(BinaryOp(op, left.v, right.v), right.rest)

\* Parse(rule, x): the grammar rule applied to the tokens x, or, for the rules
\* "trailers", "term_rest" and "expr_rest", to the result x of what precedes:
\*   atom:    NUMBER | '...' | '(' ')' | '(' expr ')' | NAME
\*   primary: atom trailers, the calls '(' ')' | '(' ['*' | '**'] expr ')'; the
\*            callee is evaluated first, then the argument, then the call raises
\*            TypeError
\*   power:   primary ['**' factor]
\*   factor:  ('+' | '-') factor | power
\*   term:    factor (('*' | '/' | '//') factor)*
\*   expr:    term (('+' | '-') term)*
RECURSIVE Parse(_, _)
Parse(rule, x) ==
    CASE rule = "atom" ->
            IF x = <<>> THEN SyntaxError
            ELSE IF Head(x).k = "num" THEN Parsed(Value(Head(x).v), Tail(x))
            ELSE IF Head(x).k = "name" THEN Parsed(Raises("NameError"), Tail(x))
            ELSE IF IsOp(x, {"("})
              THEN IF IsOp(Tail(x), {")"}) THEN Parsed(Value(TupleValue), Tail(Tail(x)))
                   ELSE LET e == Parse("expr", Tail(x)) IN
                        IF e.syn /\ IsOp(e.rest, {")"}) THEN [e EXCEPT !.rest = Tail(e.rest)]
                        ELSE SyntaxError
            ELSE SyntaxError
      [] rule = "trailers" ->
            IF ~IsOp(x.rest, {"("}) THEN x
            ELSE LET inner == Tail(x.rest)
                     arg == Parse("expr", IF IsOp(inner, {"*", "**"}) THEN Tail(inner)
                                          ELSE inner)
                     called == IF IsOp(inner, {")"})
                                 THEN Parsed(Raises(IF x.exc # "" THEN x.exc ELSE "TypeError"),
                                             Tail(inner))
                               ELSE IF arg.syn /\ IsOp(arg.rest, {")"})
                                 THEN Parsed(Raises(IF x.exc # "" THEN x.exc
                                                    ELSE IF arg.exc # "" THEN arg.exc
                                                    ELSE "TypeError"),
                                             Tail(arg.rest))
                               ELSE SyntaxError
                 IN IF called.syn THEN Parse("trailers", called) ELSE SyntaxError
      [] rule = "primary" ->
            LET a == Parse("atom", x) IN IF a.syn THEN Parse("trailers", a) ELSE SyntaxError
      [] rule = "power" ->
            LET p == Parse("primary", x) IN
            IF p.syn /\ IsOp(p.rest, {"**"})
              THEN LET f == Parse("factor", Tail(p.rest)) IN
                   IF f.syn THEN Combine("**", p, f) ELSE SyntaxError
            ELSE p
      [] rule = "factor" ->
            IF IsOp(x, {"+", "-"})
              THEN LET f == Parse("factor", Tail(x)) IN
                   IF ~f.syn THEN SyntaxError
                   ELSE IF f.exc # "" THEN f
                   ELSE Parsed(UnaryOp(Head(x).s, f.v), f.rest)
            ELSE Parse("power", x)
      [] rule \in {"term_rest", "expr_rest"} ->
            LET ops == IF rule = "term_rest" THEN {"*", "/", "//"} ELSE {"+", "-"} IN
            IF x.syn /\ IsOp(x.rest, ops)
              THEN LET right == Parse(IF rule = "term_rest" THEN "factor" ELSE "term",
                                      Tail(x.rest))
                   IN IF right.syn THEN Parse(rule, Combine(Head(x.rest).s, x, right))
                      ELSE SyntaxError
            ELSE x
      [] rule = "term" -> Parse("term_rest", Parse("factor", x))
      [] rule = "expr" -> Parse("expr_rest", Parse("term", x))

\* the outcome of a parse: no expression, or one followed by more tokens, is a
\* SyntaxError
WholeExpression(e) ==
    IF e.syn /\ e.rest = <<>> THEN [exc |-> e.exc, v |-> e.v] ELSE Raises("SyntaxError")

\* eval(expression, {"__builtins__": None}, {})
Eval(expression) == WholeExpression(Parse("expr", Lex(expression)))

\* float(value)
ToFloat(x) ==
    IF x.t \in {"tuple", "ellipsis", "complex"} THEN Raises("TypeError")
    ELSE IF x.t = "approx" THEN Value(x)
    ELSE Value(FloatValue(x.n, x.d))

\* round(x, 2) in hundredths, ties to the even hundredth
Round2(x) ==
    LET q == (x.n * 100) \div x.d
        r == (x.n * 100) % x.d
    IN IF 2 * r < x.d THEN q
       ELSE IF 2 * r > x.d THEN q + 1
       ELSE IF q % 2 = 0 THEN q ELSE q + 1

\* line 15, float(...) of the outcome e of eval(): not reached when eval() raised
FloatOf(e) == IF e.exc # "" THEN e ELSE ToFloat(e.v)

\* line 16, `except Exception`: the exceptions of eval() and float() that are
\* subclasses of Exception
CaughtExceptions == {"SyntaxError", "ZeroDivisionError", "TypeError", "NameError"}

\* lines 14-17, the try block for the outcome f of float(eval(...)): the rounded
\* value as a string, or "Error: ..." for a caught exception
TryBlock(f) ==
    IF f.exc = ""
      THEN [res |-> PlainString(IF f.v.t = "approx" THEN <<"float">> ELSE <<Round2(f.v)>>),
            evaluated |-> TRUE, raised |-> ""]
    ELSE IF f.exc \in CaughtExceptions
      THEN [res |-> ErrorString(<<"Error: ", f.exc>>), evaluated |-> TRUE, raised |-> f.exc]
    ELSE [res |-> Fault(f.exc), evaluated |-> TRUE, raised |-> f.exc]

\* lines 10-17: [res, evaluated, raised]; evaluated says whether eval() was reached,
\* raised is the exception the try block raised ("" if none)
calculate(expression) ==
    IF \E i \in 1..Len(expression) : expression[i] \notin AllowedChars
      THEN [res |-> ErrorString(<<"Error: invalid characters in expression">>),
            evaluated |-> FALSE, raised |-> ""]
    ELSE TryBlock(FloatOf(Eval(expression)))

------------------------------------------------------------------------------
(* Arguments the calls are made with *)

UserIdArgs == {"ann_lee_1", "bob_lee_2", "no_such_user"}
ReservationIdArgs == {"ZFA04Y", "HATHAT", "HATHAU", "HATHAV", "NOSUCH"}
Airports == {"SFO", "JFK"}
Dates == {"2024-05-20", "2024-05-21", "2024-05-22"}

Leg(flight_number, date) == [flight_number |-> flight_number, date |-> date]

\* one or two legs: bookable ones, and one for each way a leg is rejected
FlightLists ==
    { << Leg("HAT001", "2024-05-20") >>,
      << Leg("HAT002", "2024-05-20") >>,
      << Leg("HAT001", "2024-05-20"), Leg("HAT002", "2024-05-20") >>,
      << Leg("HAT001", "2024-05-20"), Leg("HAT003", "2024-05-20") >>,
      << Leg("HAT001", "2024-05-21") >>,
      << Leg("HAT001", "2024-05-22") >>,
      << Leg("HAT009", "2024-05-20") >> }

PaymentIdArgs == {"credit_card_1", "gift_card_1", "certificate_1", "credit_card_2"}

Payments(amounts) == [payment_id : PaymentIdArgs, amount : amounts]

\* no payment, one payment of 50 or 100, or two payments of 50 each
PaymentLists ==
    {<<>>} \cup { <<p>> : p \in Payments({50, 100}) }
           \cup { <<p, q>> : p \in Payments({50}), q \in Payments({50}) }

\* itineraries of every kind, each paid by credit card
ItineraryBookings ==
    [ user_id : {"ann_lee_1"},
      origin : {"SFO"}, destination : {"JFK"}, flight_type : {"one_way"},
      cabin : {"economy", "business"},
      flights : FlightLists,
      passengers : { <<Ann>>, <<Ann, Bob>> },
      payment_methods : { <<[payment_id |-> "credit_card_1", amount |-> 50]>>,
                          <<[payment_id |-> "credit_card_1", amount |-> 100]>> },
      total_baggages : {1}, nonfree_baggages : {0, 1},
      insurance : {"yes", "no"} ]

\* payments of every kind for one itinerary (total 50, or 100 with a paid bag)
PaymentBookings ==
    [ user_id : {"ann_lee_1", "no_such_user"},
      origin : {"SFO"}, destination : {"JFK"}, flight_type : {"one_way"},
      cabin : {"economy"},
      flights : { << Leg("HAT001", "2024-05-20") >> },
      passengers : { <<Ann>> },
      payment_methods : PaymentLists,
      total_baggages : {1}, nonfree_baggages : {0, 1},
      insurance : {"no"} ]

\* the argument lists of book_reservation in Spec
WideBookings == ItineraryBookings \cup PaymentBookings

\* the argument lists of book_reservation in SpecPool: bookings by two users, each
\* paid in full or short by one payment method
PoolBookings ==
    [ user_id : {"ann_lee_1", "bob_lee_2"},
      origin : {"SFO"}, destination : {"JFK"}, flight_type : {"one_way"},
      cabin : {"economy"},
      flights : { << Leg("HAT001", "2024-05-20") >> },
      passengers : { <<Ann>> },
      payment_methods : { <<[payment_id |-> "credit_card_1", amount |-> 50]>>,
                          <<[payment_id |-> "gift_card_1", amount |-> 50]>>,
                          <<[payment_id |-> "credit_card_2", amount |-> 50]>> },
      total_baggages : {0}, nonfree_baggages : {0},
      insurance : {"no"} ]

------------------------------------------------------------------------------
(* The Task Catalog and the Environment before its first reset *)

Action(name, kwargs) == [name |-> name, kwargs |-> kwargs]

\* the booking of the first task's ground truth
GroundTruthBooking ==
    [ user_id |-> "ann_lee_1",
      origin |-> "SFO", destination |-> "JFK", flight_type |-> "one_way",
      cabin |-> "economy",
      flights |-> << Leg("HAT001", "2024-05-20") >>,
      passengers |-> << Ann >>,
      payment_methods |-> << [payment_id |-> "credit_card_1", amount |-> 50] >>,
      total_baggages |-> 0, nonfree_baggages |-> 0, insurance |-> "no" ]

\* Task records {user_id, instruction, actions, outputs}: a booking that is then
\* cancelled, a reservation cancelled twice, and a lookup
Tasks ==
    << [ user_id |-> "ann_lee_1", instruction |-> "book a flight, then cancel it",
         actions |-> << Action("book_reservation", GroundTruthBooking),
                        Action("cancel_reservation", [reservation_id |-> "HATHAT"]) >>,
         outputs |-> << "HATHAT" >> ],
       [ user_id |-> "ann_lee_1", instruction |-> "cancel my reservation, twice",
         actions |-> << Action("cancel_reservation", [reservation_id |-> "ZFA04Y"]),
                        Action("cancel_reservation", [reservation_id |-> "ZFA04Y"]) >>,
         outputs |-> << >> ],
       [ user_id |-> "ann_lee_1", instruction |-> "what is my last name?",
         actions |-> << Action("get_user_details", [user_id |-> "ann_lee_1"]) >>,
         outputs |-> << "Lee" >> ] >>

\* the Environment as constructed: no episode yet.  reward is 0 for 0.0 and 1 for
\* 1.0; trace and calls are history: the actions stepped since the reset, and the
\* number of reset and step calls
NoEpisode ==
    [ phase |-> "NOT_STARTED", task_index |-> 1, tasks |-> Tasks, log |-> <<>>,
      reward |-> 0, done |-> FALSE, trace |-> <<>>, calls |-> 0 ]

\* the samples a solver is run for, and the task_index of a sample's metadata
Samples == 1..NumSamples
TaskIndexOf(s) == ((s - 1) % Len(Tasks)) + 1

\* No solve coroutine has started.  running is the coroutine the event loop is
\* executing (0: none); pc is each coroutine's position, i the passes of the loop
\* it has completed and action the action it is about to step with.  metadata is
\* state.metadata["reward"] of the sample.  The rest is history: the number of
\* env.reset and env.step calls of the coroutine, whether its last step returned
\* done, the steps it has made while it is in its loop, and owner, the coroutine
\* that made the last env.reset.
NoLoop ==
    [ running |-> 0, owner |-> 0,
      pc |-> [s \in Samples |-> "pending"],
      i |-> [s \in Samples |-> 0],
      action |-> [s \in Samples |-> Action("none", <<>>)],
      metadata |-> [s \in Samples |-> [set |-> FALSE, reward |-> 0]],
      resets |-> [s \in Samples |-> 0],
      stepcalls |-> [s \in Samples |-> 0],
      done |-> [s \in Samples |-> FALSE],
      trace |-> [s \in Samples |-> <<>>] ]

------------------------------------------------------------------------------
(* The state machine: one action per tool call *)

NoCall == [op |-> "none", args |-> <<>>, res |-> PlainString(<<>>), pre |-> load_data]

Init ==
    /\ data = load_data
    /\ last = NoCall
    /\ steps = 0
    /\ booked = 0
    /\ env = NoEpisode
    /\ loop = NoLoop

\* a call is made while the episode has steps left and no call has faulted
CanCall(max_steps) == steps < max_steps /\ last.res.kind # "fault"

\* the call's outcome becomes the state
Called(op, args, out) ==
    /\ data' = out.data
    /\ last' = [op |-> op, args |-> args, res |-> out.res, pre |-> data]
    /\ steps' = steps + 1
    /\ booked' = IF op = "book_reservation" /\ out.res.kind = "json" THEN booked + 1 ELSE booked
    /\ env' = env
    /\ loop' = loop

BookReservation(bookings, max_steps) ==
    /\ CanCall(max_steps)
    /\ \E a \in bookings :
          Called("book_reservation", a,
                 book_reservation(a.user_id, a.origin, a.destination, a.flight_type,
                                  a.cabin, a.flights, a.passengers, a.payment_methods,
                                  a.total_baggages, a.nonfree_baggages, a.insurance, data))

CancelReservation(max_steps) ==
    /\ CanCall(max_steps)
    /\ \E reservation_id \in ReservationIdArgs :
          Called("cancel_reservation", [reservation_id |-> reservation_id],
                 cancel_reservation(reservation_id, data))

GetUserDetails(max_steps) ==
    /\ CanCall(max_steps)
    /\ \E user_id \in UserIdArgs :
          Called("get_user_details", [user_id |-> user_id], get_user_details(user_id, data))

GetReservationDetails(max_steps) ==
    /\ CanCall(max_steps)
    /\ \E reservation_id \in ReservationIdArgs :
          Called("get_reservation_details", [reservation_id |-> reservation_id],
                 get_reservation_details(reservation_id, data))

SearchDirectFlight(max_steps) ==
    /\ CanCall(max_steps)
    /\ \E origin \in Airports, destination \in Airports, date \in Dates :
          Called("search_direct_flight",
                 [origin |-> origin, destination |-> destination, date |-> date],
                 search_direct_flight(origin, destination, date, data))

Next ==
    \/ BookReservation(WideBookings, MaxSteps)
    \/ CancelReservation(MaxSteps)
    \/ GetUserDetails(MaxSteps)
    \/ GetReservationDetails(MaxSteps)
    \/ SearchDirectFlight(MaxSteps)

Spec == Init /\ [][Next]_vars

\* booking sequences: few argument lists, more calls
NextPool ==
    \/ BookReservation(PoolBookings, MaxPoolSteps)
    \/ CancelReservation(MaxPoolSteps)
    \/ GetReservationDetails(MaxPoolSteps)

SpecPool == Init /\ [][NextPool]_vars

\* search_direct_flight on every flights collection of a family
RouteArgs == { <<"SFO", "JFK">>, <<"JFK", "SFO">> }

Fares(seats) ==
    [ status |-> "available",
      available_seats |-> [basic_economy |-> seats, economy |-> seats, business |-> seats],
      prices |-> [basic_economy |-> 30, economy |-> 50, business |-> 100] ]

DateMaps ==
    { "2024-05-20" :> Fares(2),
      ("2024-05-20" :> Fares(1)) @@ ("2024-05-21" :> [status |-> "cancelled"]),
      "2024-05-20" :> [status |-> "landed"],
      "2024-05-21" :> Fares(3) }

FlightVariants(flight_number) ==
    { [flight_number |-> flight_number, origin |-> r[1], destination |-> r[2], dates |-> dm] :
        r \in RouteArgs, dm \in DateMaps }

FlightCollections ==
    { [load_data.flights EXCEPT !["HAT001"] = f1, !["HAT002"] = f2] :
        f1 \in FlightVariants("HAT001"), f2 \in FlightVariants("HAT002") }

InitSearch ==
    /\ data \in { [load_data EXCEPT !.flights = fs] : fs \in FlightCollections }
    /\ last = NoCall
    /\ steps = 0
    /\ booked = 0
    /\ env = NoEpisode
    /\ loop = NoLoop

NextSearch == SearchDirectFlight(MaxSteps)

SpecSearch == InitSearch /\ [][NextSearch]_vars

\* certificates sent, looked up and spent
CertificateAmounts == {50, 100}

\* bookings paid with a certificate that was sent in the episode
CertificateBookings ==
    [ user_id : {"ann_lee_1"},
      origin : {"SFO"}, destination : {"JFK"}, flight_type : {"one_way"},
      cabin : {"economy"},
      flights : { << Leg("HAT001", "2024-05-20") >> },
      passengers : { <<Ann>> },
      payment_methods : { <<[payment_id |-> CertificateIds[1], amount |-> 50]>>,
                          <<[payment_id |-> CertificateIds[2], amount |-> 50]>> },
      total_baggages : {0}, nonfree_baggages : {0},
      insurance : {"no"} ]

SendCertificate(max_steps) ==
    /\ CanCall(max_steps)
    /\ \E user_id \in UserIdArgs, amount \in CertificateAmounts :
          Called("send_certificate", [user_id |-> user_id, amount |-> amount],
                 send_certificate(user_id, amount, data))

NextCertificate ==
    \/ SendCertificate(MaxCertificateSteps)
    \/ BookReservation(CertificateBookings, MaxCertificateSteps)
    \/ GetUserDetails(MaxCertificateSteps)

SpecCertificate == Init /\ [][NextCertificate]_vars

\* calculate on every expression of up to MaxExprLen characters
ExprChars == {"0", "1", "-", "*", "/", "(", ")", ".", " ", "a"}

Expressions == UNION { [1..n -> ExprChars] : n \in 0..MaxExprLen }

InitCalculate ==
    /\ data = load_data
    /\ last \in { [NoCall EXCEPT !.args = [expression |-> e]] : e \in Expressions }
    /\ steps = 0
    /\ booked = 0
    /\ env = NoEpisode
    /\ loop = NoLoop

\* the expression is passed to the tool once
Calculate ==
    /\ last.op = "none"
    /\ LET out == calculate(last.args.expression) IN
          last' = [op |-> "calculate", args |-> last.args, res |-> out.res, pre |-> data,
                   evaluated |-> out.evaluated, raised |-> out.raised]
    /\ steps' = steps + 1
    /\ UNCHANGED <<data, booked, env, loop>>

NextCalculate == Calculate

SpecCalculate == InitCalculate /\ [][NextCalculate]_vars

------------------------------------------------------------------------------
(* The Environment: Env.reset, Env.step and the Reward Calculator.  envs/base.py
   is not among the sources; these definitions follow sections 4.3 and 4.4 of
   the specification.  What the sources fix is taken from them: load_data, the
   Tool Registry, the terminal tools, the respond action, what the tools do with
   the arguments they are given, and the driving loop. *)

RESPOND_ACTION_NAME == "respond"

\* the names of the Tool Registry
ToolNames ==
    {"calculate", "list_all_airports", "search_direct_flight", "search_onestop_flight",
     "get_user_details", "get_reservation_details", "cancel_reservation",
     "book_reservation", "think", "send_certificate", "transfer_to_human_agents"}

\* mutant: no tool ends the episode
terminate_tools_None == {}

\* the terminal-action set of the airline domain
terminate_tools == {"transfer_to_human_agents"}

\* src/tools/think.py
think(thought) == PlainString(<<"">>)

\* src/tools/transfer_to_human_agents.py
transfer_to_human_agents(summary) == PlainString(<<"Transfer successful">>)

\* step 3: the tool of the action is invoked with the action's kwargs on d
Invoke(action, d) ==
    LET a == action.kwargs IN
    CASE action.name = "book_reservation" ->
            book_reservation(a.user_id, a.origin, a.destination, a.flight_type, a.cabin,
                             a.flights, a.passengers, a.payment_methods,
                             a.total_baggages, a.nonfree_baggages, a.insurance, d)
      [] action.name = "cancel_reservation" -> cancel_reservation(a.reservation_id, d)
      [] action.name = "get_user_details" -> get_user_details(a.user_id, d)
      [] action.name = "get_reservation_details" -> get_reservation_details(a.reservation_id, d)
      [] action.name = "search_direct_flight" ->
            search_direct_flight(a.origin, a.destination, a.date, d)
      [] action.name = "send_certificate" -> send_certificate(a.user_id, a.amount, d)
      [] action.name = "calculate" -> [res |-> calculate(a.expression).res, data |-> d]
      [] action.name = "think" -> [res |-> think(a.thought), data |-> d]
      [] action.name = "transfer_to_human_agents" ->
            [res |-> transfer_to_human_agents(a.summary), data |-> d]

\* Replaying the ground-truth actions i, i+1, ... on d.  A tool is given the very
\* kwargs of the Task's action: book_reservation stores the payment_methods list it
\* is given as the reservation's payment_history (book_reservation.py line 66) and
\* cancel_reservation extends that list in place (cancel_reservation.py line 32).
\* owner maps a reservation ID to the action whose list its payment_history is.
RECURSIVE Replay(_, _, _, _), Replayed(_, _, _, _)
Replay(actions, i, d, owner) ==
    IF i > Len(actions) THEN [data |-> d, actions |-> actions]
    ELSE IF actions[i].name \notin ToolNames THEN Replay(actions, i + 1, d, owner)
    ELSE Replayed(actions, i, owner, Invoke(actions[i], d))

\* the replay after action i has returned out
Replayed(actions, i, owner, out) ==
    LET action == actions[i] IN
    IF out.res.kind = "fault" THEN [data |-> out.data, actions |-> actions]
    ELSE IF action.name = "book_reservation" /\ out.res.kind = "json"
      THEN Replay(actions, i + 1, out.data,
                  DictSet(owner, out.res.value.reservation_id, i))
    ELSE IF action.name = "cancel_reservation" /\ out.res.kind = "json"
            /\ action.kwargs.reservation_id \in DOMAIN owner
      THEN Replay([actions EXCEPT ![owner[action.kwargs.reservation_id]].kwargs.payment_methods
                                     = out.res.value.payment_history],
                  i + 1, out.data, owner)
    ELSE Replay(actions, i + 1, out.data, owner)

\* the collections a tool writes to
Writes(name) ==
    CASE name = "book_reservation" -> {"users", "reservations"}
      [] name = "cancel_reservation" -> {"reservations"}
      [] name = "send_certificate" -> {"users"}
      [] OTHER -> {}

\* the collections touched by the ground-truth actions
Touched(actions) == UNION { Writes(actions[i].name) : i \in 1..Len(actions) }

Restrict(d, collections) == [c \in collections |-> d[c]]

\* the strings that make up an observation or response, as far as the outputs of
\* the catalog can occur in them: the IDs and names of a JSON record, the text of
\* any other string
Strings(res) ==
    IF res.kind # "json" THEN {res.text[1]}
    ELSE IF "reservation_id" \in DOMAIN res.value
      THEN {res.value.reservation_id, res.value.user_id}
    ELSE {res.value.name.first_name, res.value.name.last_name}
           \cup {res.value.reservations[i] : i \in 1..Len(res.value.reservations)}

\* mutant: the outputs are not looked at
OutputsFound_Always(outputs, log) == TRUE

\* output correctness: every output occurs in the observations and responses so far
OutputsFound(outputs, log) ==
    \A k \in 1..Len(outputs) : \E j \in 1..Len(log) : outputs[k] \in Strings(log[j])

\* the two checks, given the replay of the ground-truth actions
Reward(task, d, log, replay) ==
    LET touched == Touched(task.actions)
    IN [ reward |-> IF /\ Restrict(d, touched) = Restrict(replay.data, touched)
                       /\ OutputsFound(task.outputs, log)
                      THEN 1 ELSE 0,
         actions |-> replay.actions ]

\* the Reward Calculator: [reward, actions], where actions are the Task's actions
\* after the replay
calculate_reward(task, d, log) ==
    Reward(task, d, log, Replay(task.actions, 1, load_data, <<>>))

\* the episode state reset leaves
ResetEpisode(task_index, e) ==
    [e EXCEPT !.phase = "ACTIVE", !.task_index = task_index, !.log = <<>>,
              !.reward = 0, !.done = FALSE, !.trace = <<>>,
              !.calls = @ + 1]

\* mutant: the working Database is kept for the next episode
reset_KeepsData(task_index, e, d) ==
    [ res |-> PlainString(<<e.tasks[task_index].instruction>>), data |-> d,
      env |-> ResetEpisode(task_index, e) ]

\* reset(task_index): a fresh Database, Task[task_index], counter and log reset;
\* returns the instruction as the initial observation
reset(task_index, e, d) ==
    [ res |-> PlainString(<<e.tasks[task_index].instruction>>), data |-> load_data,
      env |-> ResetEpisode(task_index, e) ]

\* the user simulator's stop signal
StopSignal == "###STOP###"

\* mutant: every reply ends the conversation
ConversationOver_Always(reply) == TRUE

\* the user simulator's "conversation over" signal
ConversationOver(reply) == reply = StopSignal

\* mutant: the observation for an unknown action names the action
ActionNotFound_Named(name) == ErrorString(<<"Unknown action", name>>)

\* step 2: the observation for a name that is not in the Tool Registry
ActionNotFound(name) == ErrorString(<<"Error: action not found">>)

\* mutant: the episode is never marked as over
Finish_StaysActive(e, log, done, rc) ==
    [e EXCEPT !.log = log, !.done = done, !.phase = "ACTIVE",
              !.reward = rc.reward,
              !.tasks[e.task_index].actions = rc.actions]

\* the episode state at the end of a step that computed the reward
Finish(e, log, done, rc) ==
    [e EXCEPT !.log = log, !.done = done, !.phase = IF done THEN "DONE" ELSE "ACTIVE",
              !.reward = rc.reward,
              !.tasks[e.task_index].actions = rc.actions]

\* steps 3 to 5 for a tool that has returned out: its string is the observation;
\* an exception of the tool leaves step
Returned(action, e, out) ==
    LET task == e.tasks[e.task_index]
        taken == [e EXCEPT !.trace = Append(@, action), !.calls = @ + 1]
        log == Append(e.log, out.res)
    IN
    IF out.res.kind = "fault" THEN [res |-> out.res, data |-> out.data, env |-> taken]
    ELSE [ res |-> out.res, data |-> out.data,
           env |-> Finish(taken, log, action.name \in terminate_tools,
                          calculate_reward(task, out.data, log)) ]

\* step(action): [res, data, env]; reply is what the user simulator answers to a
\* respond action
step(action, reply, e, d) ==
    LET task == e.tasks[e.task_index]
        taken == [e EXCEPT !.trace = Append(@, action), !.calls = @ + 1]
    IN
    IF action.name = RESPOND_ACTION_NAME
      THEN LET log == e.log \o << PlainString(<<action.kwargs.content>>),
                                  PlainString(<<reply>>) >>
           IN [ res |-> PlainString(<<reply>>), data |-> d,
                env |-> Finish(taken, log, ConversationOver(reply),
                               calculate_reward(task, d, log)) ]
    ELSE IF action.name \notin ToolNames
      THEN [ res |-> ActionNotFound(action.name), data |-> d,
             env |-> [taken EXCEPT !.log = Append(@, ActionNotFound(action.name)),
                                   !.done = FALSE] ]
    ELSE Returned(action, e, Invoke(action, d))

------------------------------------------------------------------------------
(* The driving loop (agents.py): reset, then steps until done *)

\* what the user simulator answers
UserReplies == {"anything else?", StopSignal}

\* the actions the agent steps with; each is built from the model's message
\* (json.loads), so its kwargs are objects of its own
EnvActions ==
    { Action("book_reservation", GroundTruthBooking),
      Action("book_reservation",
             [GroundTruthBooking EXCEPT
                !.payment_methods = <<[payment_id |-> "credit_card_1", amount |-> 100]>>]),
      Action("book_reservation", [GroundTruthBooking EXCEPT !.user_id = "no_such_user"]),
      Action("book_reservation",
             [GroundTruthBooking EXCEPT
                !.nonfree_baggages = 1,
                !.payment_methods = <<[payment_id |-> "certificate_1", amount |-> 50],
                                      [payment_id |-> "certificate_1", amount |-> 50]>>]),
      Action("cancel_reservation", [reservation_id |-> "HATHAT"]),
      Action("cancel_reservation", [reservation_id |-> "ZFA04Y"]),
      Action("cancel_reservation", [reservation_id |-> "NOSUCH"]),
      Action("get_user_details", [user_id |-> "ann_lee_1"]),
      Action("get_user_details", [user_id |-> "no_such_user"]),
      Action("get_reservation_details", [reservation_id |-> "NOSUCH"]),
      Action("send_certificate", [user_id |-> "bob_lee_2", amount |-> 50]),
      Action("send_certificate", [user_id |-> "no_such_user", amount |-> 50]),
      Action("transfer_to_human_agents", [summary |-> "the user asks for a human"]),
      Action("think", [thought |-> "what next"]),
      Action(RESPOND_ACTION_NAME, [content |-> "HATHAT"]),
      Action(RESPOND_ACTION_NAME, [content |-> "hello"]),
      Action("refund_all", [reservation_id |-> "ZFA04Y"]) }

\* env.reset(task_index), at the start of solve
Reset ==
    /\ env.calls < MaxEnvCalls
    /\ \E task_index \in 1..Len(Tasks) :
          LET out == reset(task_index, env, data) IN
          /\ data' = out.data
          /\ env' = out.env
          /\ last' = [op |-> "reset", args |-> [task_index |-> task_index],
                      res |-> out.res, pre |-> data, phase |-> env.phase]
    /\ steps' = 0
    /\ booked' = 0
    /\ loop' = loop

\* what a step that gave out leaves
Stepped(action, reply, out) ==
    /\ data' = out.data
    /\ env' = out.env
    /\ last' = [op |-> action.name, args |-> action.kwargs, res |-> out.res,
                pre |-> data, phase |-> env.phase, reward |-> env.reward,
                task |-> env.tasks[env.task_index], reply |-> reply]
    /\ booked' = IF action.name = "book_reservation" /\ out.res.kind = "json"
                   THEN booked + 1 ELSE booked

\* one pass of the loop: env.step(action); the loop runs after the reset and is
\* left when a step returns done or raises.  last keeps, from before the step, the
\* Database, the phase, the reward and the Task
Step ==
    /\ env.calls < MaxEnvCalls
    /\ env.phase = "ACTIVE"
    /\ last.res.kind # "fault"
    /\ \E action \in EnvActions, reply \in UserReplies :
          /\ action.name # RESPOND_ACTION_NAME => reply = StopSignal
          /\ Stepped(action, reply, step(action, reply, env, data))
    /\ steps' = steps + 1
    /\ loop' = loop

NextEnv == Reset \/ Step

SpecEnv == Init /\ [][NextEnv]_vars

------------------------------------------------------------------------------
(* The solvers (agents.py, tool_calling_agent lines 72-138 and chat_react_agent
   lines 220-280): solve is a coroutine that one event loop runs for every
   sample, all with the Env instance the solver was built with.  A coroutine
   runs until it awaits or ends; only then the event loop runs another one. *)

\* mutant: completion is awaited
AwaitPoints_Completion == {"completion"}

\* the positions of solve at which it awaits: there is no await in either solve
\* (completion of litellm is a blocking call)
AwaitPoints == {}

\* the actions the model's messages are turned into
LoopActions ==
    { Action("book_reservation", GroundTruthBooking),
      Action("book_reservation",
             [GroundTruthBooking EXCEPT
                !.nonfree_baggages = 1,
                !.payment_methods = <<[payment_id |-> "certificate_1", amount |-> 50],
                                      [payment_id |-> "certificate_1", amount |-> 50]>>]),
      Action("cancel_reservation", [reservation_id |-> "HATHAT"]),
      Action("cancel_reservation", [reservation_id |-> "ZFA04Y"]),
      Action("get_user_details", [user_id |-> "ann_lee_1"]),
      Action("transfer_to_human_agents", [summary |-> "the user asks for a human"]),
      Action(RESPOND_ACTION_NAME, [content |-> "HATHAT"]),
      Action("refund_all", [reservation_id |-> "ZFA04Y"]) }

Ended(s) == loop.pc[s] \in {"returned", "raised"}

\* the event loop is free after the position pos of a coroutine
Yields(pos) == pos \in AwaitPoints

\* the event loop starts or resumes a coroutine
Schedule ==
    /\ loop.running = 0
    /\ \E s \in Samples :
          /\ ~Ended(s)
          /\ loop' = [loop EXCEPT !.running = s]
    /\ UNCHANGED <<data, last, steps, booked, env>>

\* lines 74-78: env.reset(task_index) with the sample's task_index
LoopReset ==
    /\ loop.running # 0 /\ loop.pc[loop.running] = "pending"
    /\ LET s == loop.running
           out == reset(TaskIndexOf(s), env, data)
       IN /\ data' = out.data
          /\ env' = out.env
          /\ last' = [op |-> "reset", args |-> [task_index |-> TaskIndexOf(s)],
                      res |-> out.res, pre |-> data, phase |-> env.phase]
          /\ loop' = [loop EXCEPT !.pc[s] = IF MaxLoopSteps > 0 THEN "completion" ELSE "returned",
                                  !.running = IF MaxLoopSteps > 0 THEN s ELSE 0,
                                  !.owner = s,
                                  !.resets[s] = @ + 1]
    /\ steps' = 0
    /\ booked' = 0

\* lines 95-106: the top of a pass of the loop, completion(...) and the action made
\* of the model's message
LoopCompletion ==
    /\ loop.running # 0 /\ loop.pc[loop.running] = "completion"
    /\ \E action \in LoopActions :
          LET s == loop.running IN
          loop' = [loop EXCEPT !.pc[s] = "step", !.action[s] = action,
                               !.running = IF Yields("completion") THEN 0 ELSE s]
    /\ UNCHANGED <<data, last, steps, booked, env>>

\* lines 95 and 135-136: the loop is left when the step returned done, or after
\* max_steps passes
LoopLeft(done, passes) == done \/ passes = MaxLoopSteps

\* lines 109-136 for a step that gave out: the reward and the metadata are
\* assigned when env.step returns; an exception of env.step ends solve
LoopStepped(s, action, out) ==
    LET raised == out.res.kind = "fault"
        left == LoopLeft(out.env.done, loop.i[s] + 1)
    IN loop' = [loop EXCEPT
                  !.pc[s] = IF raised THEN "raised" ELSE IF left THEN "returned"
                            ELSE "completion",
                  !.running = IF raised \/ left THEN 0 ELSE s,
                  !.i[s] = @ + 1,
                  !.stepcalls[s] = @ + 1,
                  !.action[s] = Action("none", <<>>),
                  !.trace[s] = IF raised \/ left THEN <<>> ELSE Append(@, action),
                  !.done[s] = IF raised THEN @ ELSE out.env.done,
                  !.metadata[s] = IF raised THEN @
                                  ELSE [set |-> TRUE, reward |-> out.env.reward]]

\* lines 109-136: env.step(action) on the solver's Env instance
LoopStep ==
    /\ loop.running # 0 /\ loop.pc[loop.running] = "step"
    /\ \E reply \in UserReplies :
          LET s == loop.running
              action == loop.action[s]
          IN /\ action.name # RESPOND_ACTION_NAME => reply = StopSignal
             /\ Stepped(action, reply, step(action, reply, env, data))
             /\ LoopStepped(s, action, step(action, reply, env, data))
    /\ steps' = steps + 1

NextLoop == Schedule \/ LoopReset \/ LoopCompletion \/ LoopStep

SpecLoop == Init /\ [][NextLoop]_vars

\* the event loop runs every coroutine it has, and completion returns
SpecLoopFair == SpecLoop /\ WF_vars(NextLoop)

------------------------------------------------------------------------------
(* parse_react_response (agents.py lines 165-193).  A message content is a
   sequence of lexemes; the string it stands for is their concatenation. *)

\* the lexemes that are JSON strings
StringTokens == {"\"name\"", "\"arguments\""}

\* the lexemes: the marker, JSON punctuation, strings, a digit, a blank, and a word
\* that is no JSON
ContentTokens ==
    {"Action:", "{", "}", "[", "]", ":", ",", "1", " ", "Thought"} \cup StringTokens

\* objects of one or two members, and lists, as the model writes them after the
\* marker
JsonTexts ==
    LET values == { <<"\"name\"">>, <<"1">>, <<"{", "}">> }
        members == { <<k, ":">> \o v : k \in StringTokens, v \in values }
    IN { <<"{">> \o m \o <<"}">> : m \in members }
         \cup { <<"{">> \o m \o <<",", " ">> \o n \o <<"}">> : m \in members, n \in members }
         \cup { <<"[", "\"name\"", ",", "\"arguments\"", "]">>,
                <<"[", "\"arguments\"", ",", "1", "]">> }

\* the contents parsed: every content of up to MaxContentLen lexemes, and the JSON
\* texts after a thought and a marker, or with no marker
Contents ==
    UNION { [1..n -> ContentTokens] : n \in 0..MaxContentLen }
      \cup { before \o j \o after :
               before \in { <<>>, <<"Thought", "Action:", " ">>,
                            <<"Action:", "1", "Action:">> },
               j \in JsonTexts,
               after \in { <<>>, <<" ">>, <<"Thought">> } }

\* the lexeme at position i, "" past the end
At(toks, i) == IF i \in 1..Len(toks) THEN toks[i] ELSE ""

\* the first position from i on that holds no blank
RECURSIVE SkipBlanks(_, _)
SkipBlanks(toks, i) == IF At(toks, i) = " " THEN SkipBlanks(toks, i + 1) ELSE i

\* the first position from i on that holds no digit
RECURSIVE SkipDigits(_, _)
SkipDigits(toks, i) == IF At(toks, i) = "1" THEN SkipDigits(toks, i + 1) ELSE i

\* a JSON value: its Python type, its text without blanks, the members of a dict
\* (the last of equal keys wins), the items of a list
JsonValue(t, text, members, items) ==
    [t |-> t, text |-> text, members |-> members, items |-> items]

NoJson == [ok |-> FALSE, i |-> 0, v |-> JsonValue("none", <<>>, <<>>, {})]

\* json's decoder.  rule "value" reads a value from position i on; "member" reads
\* the members of a dict from a key at i on, "item" the items of a list, acc being
\* the dict or list read so far.  [ok, i, v]: v is the value and i the position
\* after it
RECURSIVE JsonDecode(_, _, _, _)
JsonDecode(rule, toks, i, acc) ==
    CASE rule = "value" ->
           LET j == SkipBlanks(toks, i)
               tok == At(toks, j)
           IN
           IF tok = "{"
             THEN IF At(toks, SkipBlanks(toks, j + 1)) = "}"
                    THEN [ok |-> TRUE, i |-> SkipBlanks(toks, j + 1) + 1,
                          v |-> JsonValue("dict", <<"{", "}">>, <<>>, {})]
                    ELSE JsonDecode("member", toks, SkipBlanks(toks, j + 1),
                                    JsonValue("dict", <<"{">>, <<>>, {}))
           ELSE IF tok = "["
             THEN IF At(toks, SkipBlanks(toks, j + 1)) = "]"
                    THEN [ok |-> TRUE, i |-> SkipBlanks(toks, j + 1) + 1,
                          v |-> JsonValue("list", <<"[", "]">>, <<>>, {})]
                    ELSE JsonDecode("item", toks, j + 1, JsonValue("list", <<"[">>, <<>>, {}))
           ELSE IF tok \in StringTokens
             THEN [ok |-> TRUE, i |-> j + 1, v |-> JsonValue("str", <<tok>>, <<>>, {})]
           ELSE IF tok = "1"
             THEN [ok |-> TRUE, i |-> SkipDigits(toks, j),
                   v |-> JsonValue("int", SubSeq(toks, j, SkipDigits(toks, j) - 1), <<>>, {})]
           ELSE NoJson
      [] rule = "member" ->
           LET key == At(toks, i)
               colon == SkipBlanks(toks, i + 1)
           IN
           IF key \notin StringTokens \/ At(toks, colon) # ":" THEN NoJson
           ELSE LET r == JsonDecode("value", toks, colon + 1, acc)
                    m == SkipBlanks(toks, r.i)
                    read == JsonValue("dict", acc.text \o <<key, ":">> \o r.v.text,
                                      [k \in DOMAIN acc.members \cup {key} |->
                                          IF k = key THEN r.v ELSE acc.members[k]],
                                      {})
                IN
                IF ~r.ok THEN NoJson
                ELSE IF At(toks, m) = ","
                  THEN JsonDecode("member", toks, SkipBlanks(toks, m + 1),
                                  [read EXCEPT !.text = @ \o <<",">>])
                ELSE IF At(toks, m) = "}"
                  THEN [ok |-> TRUE, i |-> m + 1, v |-> [read EXCEPT !.text = @ \o <<"}">>]]
                ELSE NoJson
      [] rule = "item" ->
           LET r == JsonDecode("value", toks, i, acc)
               m == SkipBlanks(toks, r.i)
               read == JsonValue("list", acc.text \o r.v.text, <<>>,
                                 acc.items \cup {r.v.text})
           IN
           IF ~r.ok THEN NoJson
           ELSE IF At(toks, m) = ","
             THEN JsonDecode("item", toks, m + 1, [read EXCEPT !.text = @ \o <<",">>])
           ELSE IF At(toks, m) = "]"
             THEN [ok |-> TRUE, i |-> m + 1, v |-> [read EXCEPT !.text = @ \o <<"]">>]]
           ELSE NoJson

\* json.loads(s): the value of s, or JSONDecodeError when s is no JSON value or
\* has anything but blanks after it
json_loads(s) ==
    LET r == JsonDecode("value", s, 1, NoJson.v) IN
    IF r.ok /\ SkipBlanks(s, r.i) > Len(s) THEN r ELSE NoJson

\* content.split("Action:")[-1]: what follows the last marker, all of the content
\* when it has none
RECURSIVE AfterLastMarker(_, _)
AfterLastMarker(content, i) ==
    IF i = 0 THEN content
    ELSE IF content[i] = "Action:" THEN SubSeq(content, i + 1, Len(content))
    ELSE AfterLastMarker(content, i - 1)

\* str.strip()
RECURSIVE strip(_)
strip(s) ==
    IF s = <<>> THEN s
    ELSE IF Head(s) = " " THEN strip(Tail(s))
    ELSE IF s[Len(s)] = " " THEN strip(SubSeq(s, 1, Len(s) - 1))
    ELSE s

\* Python's `key in v`: a key of a dict, an item of a list, a substring of a str;
\* TypeError for an int
Iterable(v) == v.t \in {"dict", "list", "str"}
Contains(v, key) ==
    CASE v.t = "dict" -> key \in DOMAIN v.members
      [] v.t = "list" -> <<key>> \in v.items
      [] v.t = "str" -> v.text = <<key>>
      [] OTHER -> FALSE

\* the fallback of the except clause; fallback tells it from the Action of the try
\* block, whose name and kwargs are JSON values
RespondWith(content) ==
    [kind |-> "action", fallback |-> TRUE,
     action |-> Action(RESPOND_ACTION_NAME, [content |-> content])]

\* the statements of the try block on the decoded value; the except clause catches
\* JSONDecodeError, KeyError and ValueError, a TypeError leaves the function
parse_react_response(content) ==
    LET action_str == strip(AfterLastMarker(content, Len(content)))
        action_parsed == json_loads(action_str)
        v == action_parsed.v
    IN
    IF ~action_parsed.ok THEN RespondWith(content)
    ELSE IF ~Iterable(v) THEN [kind |-> "raised", exc |-> "TypeError"]
    ELSE IF ~Contains(v, "\"name\"") THEN RespondWith(content)
    ELSE IF ~Contains(v, "\"arguments\"") THEN RespondWith(content)
    ELSE IF v.t # "dict" THEN [kind |-> "raised", exc |-> "TypeError"]
    ELSE [kind |-> "action", fallback |-> FALSE,
          action |-> Action(v.members["\"name\""], v.members["\"arguments\""])]

InitReact ==
    /\ data = load_data
    /\ last \in { [NoCall EXCEPT !.args = [content |-> c]] : c \in Contents }
    /\ steps = 0
    /\ booked = 0
    /\ env = NoEpisode
    /\ loop = NoLoop

\* the content of the model's message is parsed (agents.py line 256)
ParseReact ==
    /\ last.op = "none"
    /\ last' = [op |-> "parse_react_response", args |-> last.args,
                res |-> parse_react_response(last.args.content), pre |-> data]
    /\ steps' = steps + 1
    /\ UNCHANGED <<data, booked, env, loop>>

NextReact == ParseReact

SpecReact == InitReact /\ [][NextReact]_vars

------------------------------------------------------------------------------
(* Reservations cancelled again and again.  last also keeps, as history, for each
   reservation ID the number of cancel_reservation calls that succeeded on it and
   the payment_history it had when it was loaded or booked. *)

Ledger ==
    IF "cancels" \in DOMAIN last THEN [cancels |-> last.cancels, originals |-> last.originals]
    ELSE [ cancels |-> [r \in ReservationIdArgs |-> 0],
           originals |-> [r \in ReservationIdArgs |->
                            IF r \in DOMAIN load_data.reservations
                              THEN load_data.reservations[r].payment_history ELSE <<>>] ]

\* the call's outcome becomes the state
Tracked(op, args, out, ledger) ==
    /\ data' = out.data
    /\ last' = [op |-> op, args |-> args, res |-> out.res, pre |-> data,
                cancels |-> ledger.cancels, originals |-> ledger.originals]
    /\ steps' = steps + 1
    /\ booked' = IF op = "book_reservation" /\ out.res.kind = "json" THEN booked + 1 ELSE booked
    /\ UNCHANGED <<env, loop>>

BookTracked ==
    /\ CanCall(MaxCancelSteps)
    /\ \E a \in PoolBookings :
          LET out == book_reservation(a.user_id, a.origin, a.destination, a.flight_type,
                                      a.cabin, a.flights, a.passengers, a.payment_methods,
                                      a.total_baggages, a.nonfree_baggages, a.insurance, data)
          IN Tracked("book_reservation", a, out,
                     IF out.res.kind = "json"
                       THEN [Ledger EXCEPT !.originals[out.res.value.reservation_id] = a.payment_methods,
                                           !.cancels[out.res.value.reservation_id] = 0]
                       ELSE Ledger)

CancelTracked ==
    /\ CanCall(MaxCancelSteps)
    /\ \E reservation_id \in ReservationIdArgs :
          LET out == cancel_reservation(reservation_id, data)
          IN Tracked("cancel_reservation", [reservation_id |-> reservation_id], out,
                     IF out.res.kind = "json"
                       THEN [Ledger EXCEPT !.cancels[reservation_id] = @ + 1]
                       ELSE Ledger)

NextCancel == BookTracked \/ CancelTracked

SpecCancel == Init /\ [][NextCancel]_vars

------------------------------------------------------------------------------
(* Properties: what the claims say, in terms of the last call *)

IsCall(op) == last.op = op
Succeeded == last.res.kind = "json"
Unchanged == data = last.pre
ErrorIs(message) == last.res.kind = "error" /\ last.res.text[1] = message

Pool == <<"HATHAT", "HATHAU", "HATHAV">>
PoolIds == {Pool[i] : i \in 1..Len(Pool)}

\* every leg names a flight of d that flies on the date, is available there and has
\* a seat in the cabin for every passenger
LegsBookable(a, d) ==
    \A i \in 1..Len(a.flights) :
        LET leg == a.flights[i] IN
        /\ leg.flight_number \in DOMAIN d.flights
        /\ leg.date \in DOMAIN d.flights[leg.flight_number].dates
        /\ d.flights[leg.flight_number].dates[leg.date].status = "available"
        /\ d.flights[leg.flight_number].dates[leg.date].available_seats[a.cabin]
               >= Len(a.passengers)

\* the price of the first i legs for all passengers
RECURSIVE LegsPrice(_, _, _)
LegsPrice(a, d, i) ==
    IF i = 0 THEN 0
    ELSE d.flights[a.flights[i].flight_number].dates[a.flights[i].date].prices[a.cabin]
            * Len(a.passengers)
         + LegsPrice(a, d, i - 1)

\* the total price as the claims state it
ExpectedTotal(a, d) ==
    LegsPrice(a, d, Len(a.flights))
    + (IF a.insurance = "yes" THEN 30 * Len(a.passengers) ELSE 0)
    + 50 * a.nonfree_baggages

\* the sum of the first i declared amounts
RECURSIVE Declared(_, _)
Declared(payment_methods, i) ==
    IF i = 0 THEN 0 ELSE payment_methods[i].amount + Declared(payment_methods, i - 1)

DeclaredSum(a) == Declared(a.payment_methods, Len(a.payment_methods))

\* the sum of the first i declared amounts that name payment_id
RECURSIVE DeclaredFor(_, _, _)
DeclaredFor(payment_methods, payment_id, i) ==
    IF i = 0 THEN 0
    ELSE (IF payment_methods[i].payment_id = payment_id THEN payment_methods[i].amount ELSE 0)
         + DeclaredFor(payment_methods, payment_id, i - 1)

PaidWith(a, payment_id) ==
    \E i \in 1..Len(a.payment_methods) : a.payment_methods[i].payment_id = payment_id

\* every declared payment method is one of the user's and, unless a credit card,
\* holds at least the declared amount
PaymentsAccepted(a, d) ==
    \A i \in 1..Len(a.payment_methods) :
        LET p == a.payment_methods[i]
            pm == d.users[a.user_id].payment_methods
        IN /\ p.payment_id \in DOMAIN pm
           /\ pm[p.payment_id].source \in {"gift_card", "certificate"}
                 => pm[p.payment_id].amount >= p.amount

\* the user's payment methods after the deductions of booking a: certificates used
\* are gone, gift cards used are reduced by what was declared on them, the rest
\* is as before
PaymentsDeducted(a, before, after) ==
    LET pm0 == before.users[a.user_id].payment_methods
        pm1 == after.users[a.user_id].payment_methods
    IN /\ DOMAIN pm1 = {pid \in DOMAIN pm0 :
                           ~(pm0[pid].source = "certificate" /\ PaidWith(a, pid))}
       /\ \A pid \in DOMAIN pm1 :
             IF pm0[pid].source = "gift_card"
               THEN pm1[pid] = [pm0[pid] EXCEPT
                                  !.amount = @ - DeclaredFor(a.payment_methods, pid,
                                                             Len(a.payment_methods))]
               ELSE pm1[pid] = pm0[pid]

\* the reservation record booking a creates under reservation_id
BookedRecord(a, d, reservation_id) ==
    [ reservation_id |-> reservation_id, user_id |-> a.user_id,
      origin |-> a.origin, destination |-> a.destination,
      flight_type |-> a.flight_type, cabin |-> a.cabin,
      flights |-> [i \in 1..Len(a.flights) |->
                     [ flight_number |-> a.flights[i].flight_number,
                       date |-> a.flights[i].date,
                       price |-> d.flights[a.flights[i].flight_number]
                                    .dates[a.flights[i].date].prices[a.cabin],
                       origin |-> d.flights[a.flights[i].flight_number].origin,
                       destination |-> d.flights[a.flights[i].flight_number].destination ]],
      passengers |-> a.passengers, payment_history |-> a.payment_methods,
      created_at |-> "2024-05-15T15:00:00",
      total_baggages |-> a.total_baggages, nonfree_baggages |-> a.nonfree_baggages,
      insurance |-> a.insurance ]

\* the complete booking a, and nothing else, was applied to `before`
BookingApplied(a, before, after, reservation_id) ==
    /\ after.flights = before.flights
    /\ DOMAIN after.reservations = DOMAIN before.reservations \cup {reservation_id}
    /\ after.reservations[reservation_id] = BookedRecord(a, before, reservation_id)
    /\ \A r \in DOMAIN before.reservations \ {reservation_id} :
          after.reservations[r] = before.reservations[r]
    /\ DOMAIN after.users = DOMAIN before.users
    /\ \A u \in DOMAIN before.users \ {a.user_id} : after.users[u] = before.users[u]
    /\ after.users[a.user_id].reservations
          = Append(before.users[a.user_id].reservations, reservation_id)
    /\ after.users[a.user_id].name = before.users[a.user_id].name
    /\ PaymentsDeducted(a, before, after)

------------------------------------------------------------------------------
(* C1: every book_reservation call either applies the complete booking (all payment
   deductions, the new reservation record, the reservation ID appended to the
   user's reservations) or leaves the Database exactly as it was, whether it
   returns an error string or ends in a fault. *)
C1_BookingAllOrNothing ==
    IsCall("book_reservation") =>
        \/ Unchanged
        \/ \E reservation_id \in PoolIds :
               BookingApplied(last.args, last.pre, data, reservation_id)

------------------------------------------------------------------------------
\* the call reached the price computation: the user exists and every leg is bookable
Priced == last.args.user_id \in DOMAIN last.pre.users /\ LegsBookable(last.args, last.pre)

Mismatch == DeclaredSum(last.args) # ExpectedTotal(last.args, last.pre)

(* C2 as stated: whenever the declared amounts do not sum to the computed total
   price, book_reservation returns the error "Error: payment amount does not add
   up ..." and the Database is unchanged. *)
C2_MismatchReturnsAddUpError ==
    IsCall("book_reservation") /\ Priced /\ Mismatch =>
        ErrorIs("Error: payment amount does not add up") /\ Unchanged

(* C2 amended: whenever the declared amounts do not sum to the computed total
   price, book_reservation returns an error string and the Database is unchanged;
   the error is "payment amount does not add up" (with the total and the sum paid)
   when every declared payment method passed validation, and otherwise the error of
   the payment method that failed it. *)
C2_MismatchReturnsError ==
    IsCall("book_reservation") /\ Priced /\ Mismatch =>
        /\ last.res.kind = "error"
        /\ Unchanged
        /\ IF PaymentsAccepted(last.args, last.pre)
             THEN /\ ErrorIs("Error: payment amount does not add up")
                  /\ last.res.text[2] = ExpectedTotal(last.args, last.pre)
                  /\ last.res.text[3] = DeclaredSum(last.args)
             ELSE \/ ErrorIs("Error: payment method not found")
                  \/ ErrorIs("Error: not enough balance in payment method")

\* a booking with valid payment methods that pays 50 for a total of 100 was refused
C2_Witness ==
    /\ IsCall("book_reservation") /\ Priced /\ Mismatch
    /\ PaymentsAccepted(last.args, last.pre)
    /\ ExpectedTotal(last.args, last.pre) = 100 /\ DeclaredSum(last.args) = 50
    /\ ErrorIs("Error: payment amount does not add up")

(* C3: once HATHAT, HATHAU and HATHAV all exist, a further book_reservation call
   returns an error string and creates, replaces or modifies no reservation. *)
C3_ExhaustedPoolReturnsError ==
    /\ IsCall("book_reservation")
    /\ PoolIds \subseteq DOMAIN last.pre.reservations
    /\ Priced /\ PaymentsAccepted(last.args, last.pre) /\ ~Mismatch
    => last.res.kind = "error" /\ data.reservations = last.pre.reservations

(* C4: a successful book_reservation stores the new reservation under the first ID
   of the pool that is not yet a key of reservations; the k-th successful booking
   of an episode, k = 1..3, gets the k-th pool ID, which was not in use. *)
C4_FirstFreePoolId ==
    IsCall("book_reservation") /\ Succeeded =>
        LET reservation_id == last.res.value.reservation_id
            used == DOMAIN last.pre.reservations
        IN /\ data.reservations[reservation_id] = last.res.value
           /\ ~(PoolIds \subseteq used) =>
                 \E k \in 1..Len(Pool) :
                     /\ reservation_id = Pool[k]
                     /\ Pool[k] \notin used
                     /\ \A j \in 1..(k - 1) : Pool[j] \in used
           /\ booked <= Len(Pool) =>
                 reservation_id = Pool[booked] /\ reservation_id \notin used

\* the third successful booking of an episode was stored under HATHAV
C4_Witness ==
    /\ IsCall("book_reservation") /\ Succeeded /\ booked = 3
    /\ last.res.value.reservation_id = "HATHAV"
    /\ {"HATHAT", "HATHAU"} \subseteq DOMAIN last.pre.reservations

(* C5: the total price is the sum over the legs of the cabin price on the date times
   the number of passengers, plus 30 per passenger with insurance, plus 50 per
   non-free bag; a booking whose other validations pass succeeds if and only if the
   declared amounts sum exactly to this total. *)
C5_SucceedsIffPaidExactly ==
    IsCall("book_reservation") /\ Priced /\ PaymentsAccepted(last.args, last.pre) =>
        (Succeeded <=> DeclaredSum(last.args) = ExpectedTotal(last.args, last.pre))

(* C6: on a successful book_reservation, and only then, each gift card used is
   reduced by the declared amount, each certificate used is removed, credit cards
   are unchanged, the new record is added to reservations, and the returned string
   is the JSON of the stored record. *)
C6_EffectsExactlyOnSuccess ==
    IsCall("book_reservation") =>
        IF Succeeded
          THEN LET reservation_id == last.res.value.reservation_id IN
               /\ BookingApplied(last.args, last.pre, data, reservation_id)
               /\ last.res = JsonDumps(data.reservations[reservation_id])
          ELSE data.users = last.pre.users /\ data.reservations = last.pre.reservations

------------------------------------------------------------------------------
(* C7: cancel_reservation on an existing reservation with payment_history H of n
   entries leaves H followed by n refunds, the i-th with H[i]'s payment_id and
   minus H[i]'s amount, keeps the original entries and sets status "cancelled"; on
   an absent ID it returns "Error: reservation not found" and changes nothing. *)
C7_CancelAppendsNegatedEntries ==
    IsCall("cancel_reservation") =>
        LET reservation_id == last.args.reservation_id IN
        IF reservation_id \in DOMAIN last.pre.reservations
          THEN LET H == last.pre.reservations[reservation_id].payment_history
                   after == data.reservations[reservation_id]
                   n == Len(H)
               IN /\ Succeeded
                  /\ last.res.value = after
                  /\ Len(after.payment_history) = 2 * n
                  /\ \A i \in 1..n :
                        /\ after.payment_history[i] = H[i]
                        /\ after.payment_history[n + i]
                             = [payment_id |-> H[i].payment_id, amount |-> 0 - H[i].amount]
                  /\ after.status = "cancelled"
          ELSE /\ last.res = ErrorString(<<"Error: reservation not found">>)
               /\ Unchanged

\* a reservation paid with two payment methods was cancelled
C7_Witness ==
    /\ IsCall("cancel_reservation") /\ Succeeded
    /\ Len(last.pre.reservations[last.args.reservation_id].payment_history) = 2
    /\ Len(data.reservations[last.args.reservation_id].payment_history) = 4

\* the reservation the last call cancelled had been cancelled before
AlreadyCancelled ==
    /\ IsCall("cancel_reservation")
    /\ last.args.reservation_id \in DOMAIN last.pre.reservations
    /\ "status" \in DOMAIN last.pre.reservations[last.args.reservation_id]
    /\ last.pre.reservations[last.args.reservation_id].status = "cancelled"

(* C8: cancel_reservation is not idempotent: a second call on the same reservation
   succeeds, is no no-op, and appends negated entries again, so the history holds
   the refunds of the original payments twice. *)
C8_SecondCancelRefundsAgain ==
    AlreadyCancelled =>
        LET before == last.pre.reservations[last.args.reservation_id].payment_history
            after == data.reservations[last.args.reservation_id].payment_history
            n == Len(before) \div 2
        IN /\ Succeeded
           /\ ~Unchanged
           /\ Len(before) = 2 * n /\ Len(after) = 4 * n
           /\ \A i \in 1..n :
                 /\ after[i] = before[i]
                 /\ after[n + i].payment_id = before[i].payment_id
                 /\ after[n + i].amount = 0 - before[i].amount
                 /\ after[2 * n + i] = after[n + i]

\* the seed reservation (two payments) was cancelled by both calls of an episode
C8_Witness ==
    /\ AlreadyCancelled /\ steps = 2 /\ Succeeded
    /\ last.args.reservation_id = "ZFA04Y"
    /\ Len(data.reservations["ZFA04Y"].payment_history) = 8

------------------------------------------------------------------------------
(* C9: get_user_details and get_reservation_details return the JSON of the stored
   record when the ID is present and "Error: user not found" / "Error: reservation
   not found" when it is absent, and never change the Database. *)
C9_LookupsArePure ==
    /\ IsCall("get_user_details") =>
          /\ Unchanged
          /\ IF last.args.user_id \in DOMAIN last.pre.users
               THEN last.res = JsonDumps(last.pre.users[last.args.user_id])
               ELSE last.res = ErrorString(<<"Error: user not found">>)
    /\ IsCall("get_reservation_details") =>
          /\ Unchanged
          /\ IF last.args.reservation_id \in DOMAIN last.pre.reservations
               THEN last.res = JsonDumps(last.pre.reservations[last.args.reservation_id])
               ELSE last.res = ErrorString(<<"Error: reservation not found">>)

\* a user that a booking has changed was looked up
C9_Witness ==
    /\ IsCall("get_user_details") /\ Succeeded /\ Unchanged
    /\ last.args.user_id = "ann_lee_1" /\ booked = 1
    /\ data.users["ann_lee_1"] # load_data.users["ann_lee_1"]

------------------------------------------------------------------------------
\* the flight is one the claim says search_direct_flight returns
Wanted(flight, args) ==
    /\ flight.origin = args.origin
    /\ flight.destination = args.destination
    /\ args.date \in DOMAIN flight.dates
    /\ flight.dates[args.date].status = "available"

(* C10: search_direct_flight returns exactly one entry for each flight whose origin
   and destination equal the arguments and whose dates hold the requested date with
   status "available", none for any other flight; an entry has the flight's fields
   except "dates" and the fields of that date; the Database is not modified. *)
C10_SearchReturnsMatchingFlights ==
    IsCall("search_direct_flight") =>
        LET found == last.res.value
            flights == last.pre.flights
        IN /\ Succeeded
           /\ Unchanged
           /\ \A fn \in DOMAIN flights :
                 Cardinality({i \in 1..Len(found) : found[i].flight_number = fn})
                   = IF Wanted(flights[fn], last.args) THEN 1 ELSE 0
           /\ \A i \in 1..Len(found) :
                 LET flight == flights[found[i].flight_number]
                     fares == flight.dates[last.args.date]
                 IN /\ DOMAIN found[i] = (DOMAIN flight \ {"dates"}) \cup DOMAIN fares
                    /\ \A k \in DOMAIN flight \ {"dates"} : found[i][k] = flight[k]
                    /\ \A k \in DOMAIN fares : found[i][k] = fares[k]

\* a search found two flights, and another flight of the same route was left out
\* because it is not available on the date
C10_Witness ==
    /\ IsCall("search_direct_flight") /\ Succeeded
    /\ Len(last.res.value) = 2
    /\ \E fn \in DOMAIN last.pre.flights :
          /\ last.pre.flights[fn].origin = last.args.origin
          /\ last.pre.flights[fn].destination = last.args.destination
          /\ last.args.date \in DOMAIN last.pre.flights[fn].dates
          /\ ~Wanted(last.pre.flights[fn], last.args)

------------------------------------------------------------------------------
\* the positions of the certificate IDs that are not among the payment methods
FreeSlots(payment_methods) ==
    {i \in 1..Len(CertificateIds) : CertificateIds[i] \notin DOMAIN payment_methods}

(* C11: send_certificate on an existing user adds exactly one payment method, of
   source "certificate" with the given amount, under the first of the three
   certificate IDs that is not among the user's payment methods, and leaves the
   other payment methods and the rest of the Database as they were; with all
   three IDs present it returns "Error: No available certificate slots", for an
   unknown user "Error: user not found", and in both cases the Database is
   unchanged. *)
C11_SendCertificateUsesFirstFreeId ==
    IsCall("send_certificate") =>
        IF last.args.user_id \notin DOMAIN last.pre.users
          THEN last.res = ErrorString(<<"Error: user not found">>) /\ Unchanged
        ELSE
        LET before == last.pre.users[last.args.user_id].payment_methods
            free == FreeSlots(before)
        IN
        IF free = {}
          THEN last.res = ErrorString(<<"Error: No available certificate slots">>)
               /\ Unchanged
        ELSE
        LET payment_id == CertificateIds[CHOOSE i \in free : \A j \in free : i <= j]
            after == data.users[last.args.user_id].payment_methods
        IN /\ last.res.kind = "text"
           /\ DOMAIN after = DOMAIN before \cup {payment_id}
           /\ after[payment_id] = [source |-> "certificate",
                                   amount |-> last.args.amount, id |-> payment_id]
           /\ \A p \in DOMAIN before : after[p] = before[p]
           /\ data = [last.pre EXCEPT !.users[last.args.user_id].payment_methods = after]

\* the fourth call for a user found the three IDs taken by the first three
C11_Witness ==
    /\ IsCall("send_certificate") /\ steps = 4
    /\ last.args.user_id \in DOMAIN last.pre.users
    /\ ErrorIs("Error: No available certificate slots")
    /\ FreeSlots(last.pre.users[last.args.user_id].payment_methods) = {}

------------------------------------------------------------------------------
\* the characters the claim lists
ListedChars ==
    {"0", "1", "2", "3", "4", "5", "6", "7", "8", "9"}
      \cup {"+", "-", "*", "/", "(", ")", ".", " "}

OnlyListedChars(expression) == \A i \in 1..Len(expression) : expression[i] \in ListedChars

(* C12: calculate returns "Error: invalid characters in expression", without
   evaluating anything, for every expression with a character other than digits,
   + - * / ( ) . and space; for an expression of those characters only it never
   ends in a fault, and when its evaluation raises (division by zero, unbalanced
   parentheses, ...) it returns a string that starts with "Error: ". *)
C12_CalculateRejectsOrReportsErrors ==
    IsCall("calculate") =>
        IF ~OnlyListedChars(last.args.expression)
          THEN /\ last.res = ErrorString(<<"Error: invalid characters in expression">>)
               /\ ~last.evaluated
          ELSE /\ last.evaluated
               /\ last.res.kind \in {"text", "error"}
               /\ last.raised # "" => last.res.kind = "error" /\ last.res.text[1] = "Error: "
               /\ last.raised = "" => last.res.kind = "text"

\* the division by zero inside unbalanced parentheses: the syntax error is reported
C12_Witness ==
    /\ IsCall("calculate")
    /\ last.args.expression = <<"(", "1", "/", "0">>
    /\ last.res = ErrorString(<<"Error: ", "SyntaxError">>)

------------------------------------------------------------------------------
\* the last call was a step of the Environment
IsStep == last.op \notin {"none", "reset"}

\* the Database after the actions i, i+1, ... of an episode's trace, from d
RECURSIVE EpisodeData(_, _, _)
EpisodeData(trace, i, d) ==
    IF i > Len(trace) THEN d
    ELSE IF trace[i].name \notin ToolNames THEN EpisodeData(trace, i + 1, d)
    ELSE LET out == Invoke(trace[i], d) IN
         IF out.res.kind = "fault" THEN out.data
         ELSE EpisodeData(trace, i + 1, out.data)

(* C13: right after every reset the working Database equals the seed that
   load_data builds, whatever the earlier episodes did to it; and at any point of
   an episode the Database is what the steps of this episode alone make of the
   seed, so no mutation of an earlier episode is visible. *)
C13_ResetRestoresSeed ==
    /\ IsCall("reset") => data = load_data /\ env.trace = <<>>
    /\ env.phase # "NOT_STARTED" => data = EpisodeData(env.trace, 1, load_data)

\* a reset after an episode that had changed users and reservations
C13_Witness ==
    /\ IsCall("reset")
    /\ last.pre.users # load_data.users
    /\ last.pre.reservations # load_data.reservations
    /\ data = load_data

------------------------------------------------------------------------------
\* the terminal-action set the claim names for the airline domain
TerminalActions == {"transfer_to_human_agents"}

(* C14: a step whose action is in the terminal-action set (for the airline domain
   exactly transfer_to_human_agents) returns done = true and ends the episode,
   whatever the Database, the step count and the earlier steps were; the tool
   returns "Transfer successful" and leaves the Database as it was. *)
C14_TerminalActionEndsEpisode ==
    IsStep /\ last.op \in TerminalActions =>
        /\ env.done /\ env.phase = "DONE"
        /\ last.res = PlainString(<<"Transfer successful">>)
        /\ Unchanged

\* the transfer as the third step of an episode that had changed the Database
C14_Witness ==
    /\ IsCall("transfer_to_human_agents") /\ steps = 3
    /\ data # load_data
    /\ env.done /\ env.phase = "DONE"

------------------------------------------------------------------------------
\* the last call was a step that ran the Reward Calculator: it answered the user or
\* invoked a tool that returned
RewardComputed ==
    /\ IsStep
    /\ last.op \in ToolNames \cup {RESPOND_ACTION_NAME}
    /\ last.res.kind # "fault"

\* the Database that the ground-truth actions of a Task make of the seed
GroundTruthData(task) == EpisodeData(task.actions, 1, load_data)

\* every string of the Task's outputs occurs in the observations and responses
OutputsMentioned(task) ==
    LET mentioned == UNION { Strings(env.log[j]) : j \in 1..Len(env.log) }
    IN \A k \in 1..Len(task.outputs) : task.outputs[k] \in mentioned

\* C15 as stated: after a step the reward is 1.0 exactly when the whole working
\* Database equals the replayed one and every output was mentioned, else 0.0
C15_RewardIffWholeDatabaseEqual ==
    IsStep =>
        env.reward = IF data = GroundTruthData(last.task) /\ OutputsMentioned(last.task)
                       THEN 1 ELSE 0

(* C15, amended: after a step that answered the user or invoked a tool, the reward
   is 1.0 if and only if the working Database, restricted to the collections that
   the Task's ground-truth actions touch, equals the Database obtained by replaying
   those actions (as the Task holds them at that step) from the seed, and every
   string of Task.outputs occurs in the observations and responses so far; it is
   0.0 in every other case.  A step with an unknown action name, or one whose tool
   raised, leaves the reward as it was.  The reward is never anything but 0.0 or
   1.0. *)
C15_RewardIffTouchedCollectionsEqual ==
    /\ env.reward \in {0, 1}
    /\ RewardComputed =>
          LET touched == Touched(last.task.actions) IN
          env.reward = IF /\ Restrict(data, touched)
                              = Restrict(GroundTruthData(last.task), touched)
                          /\ OutputsMentioned(last.task)
                         THEN 1 ELSE 0
    /\ IsStep /\ ~RewardComputed => env.reward = last.reward

\* reward 1.0 after the two ground-truth cancellations and a certificate for a
\* user: users differs from the replayed Database, reservations does not
C15_Witness ==
    /\ RewardComputed /\ env.reward = 1
    /\ Touched(last.task.actions) = {"reservations"}
    /\ data.reservations # load_data.reservations
    /\ data.reservations = GroundTruthData(last.task).reservations
    /\ data.users # GroundTruthData(last.task).users

------------------------------------------------------------------------------
\* the steps of the episode so far are exactly the ground-truth actions of its
\* Task, as the catalog holds them when it is loaded
GroundTruthExecuted ==
    /\ IsStep
    /\ env.trace = Tasks[env.task_index].actions

(* C16: for every task of the catalog, stepping exactly the task's ground-truth
   actions from a fresh reset on the task's index ends with reward 1.0, also for a
   task that books and then cancels a reservation and for one that cancels the
   same reservation twice. *)
C16_GroundTruthYieldsFullReward == GroundTruthExecuted => env.reward = 1

------------------------------------------------------------------------------
Phases == {"NOT_STARTED", "ACTIVE", "DONE"}

\* what holds of the phase in every state of the driving loop
PhaseInvariant ==
    /\ env.phase \in Phases
    /\ env.phase = "NOT_STARTED" <=> IsCall("none")
    /\ IsStep => last.phase = "ACTIVE"
    /\ IsCall("reset") => /\ last.phase \in Phases
                          /\ env.phase = "ACTIVE" /\ ~env.done
                          /\ steps = 0 /\ env.log = <<>>
    /\ env.phase = "DONE" <=> IsStep /\ env.done

\* what a call of the driving loop does to a phase
PhaseStep ==
    /\ env.phase = "NOT_STARTED" => IsCall("reset")'
    /\ env.phase = "DONE" => IsCall("reset")' /\ env'.phase = "ACTIVE"
    /\ env.phase = "ACTIVE" /\ IsStep' =>
          env'.phase = IF env'.done THEN "DONE" ELSE "ACTIVE"

(* C17: the Environment follows NOT_STARTED -> ACTIVE -> DONE.  A step is taken
   only in ACTIVE; a reset leaves the Environment ACTIVE with the step counter at 0
   and the observation log empty, from NOT_STARTED and from DONE; a step that
   returns done = true leaves it DONE, and in DONE nothing but a reset happens, so
   that neither the Database nor the reward changes before the next reset. *)
C17_PhasesFollowResetAndDone == []PhaseInvariant /\ [][PhaseStep]_vars

\* the reset of an episode that its second step had ended
C17_Witness ==
    /\ IsCall("reset") /\ last.phase = "DONE"
    /\ env.calls = 4
    /\ env.phase = "ACTIVE" /\ steps = 0 /\ env.log = <<>>

------------------------------------------------------------------------------
(* C18: a step whose action is the respond action leaves the Database as it was,
   for every content and every Database; it returns done = true exactly when the
   user simulator signals that the conversation is over, whatever the content,
   the Database and the reward are. *)
C18_RespondKeepsDatabase ==
    IsStep /\ IsCall(RESPOND_ACTION_NAME) =>
        /\ Unchanged
        /\ env.done <=> last.reply = StopSignal
        /\ env.phase = IF last.reply = StopSignal THEN "DONE" ELSE "ACTIVE"

\* a response to which the user simulator answers without ending the
\* conversation, on a Database that a booking had changed
C18_Witness ==
    /\ IsStep /\ IsCall(RESPOND_ACTION_NAME)
    /\ last.reply # StopSignal /\ ~env.done
    /\ data # load_data /\ Unchanged
    /\ last.args.content = "HATHAT"

------------------------------------------------------------------------------
\* the last call was a step with a name that is neither the respond action nor in
\* the Tool Registry
UnknownActionStepped ==
    IsStep /\ last.op \notin ToolNames \cup {RESPOND_ACTION_NAME}

(* C19: a step whose action name is neither the respond action nor a name of the
   Tool Registry returns the observation "Error: action not found" with
   done = false, leaves the Database and the reward as they were, and leaves the
   episode ACTIVE, where further steps are accepted. *)
C19_UnknownActionIsReported ==
    UnknownActionStepped =>
        /\ last.res = ErrorString(<<"Error: action not found">>)
        /\ env.log = Append(SubSeq(env.log, 1, Len(env.log) - 1), last.res)
        /\ ~env.done /\ env.phase = "ACTIVE"
        /\ Unchanged
        /\ env.reward = last.reward

\* an unknown action as the third step of an episode with reward 1.0 and a
\* changed Database
C19_Witness ==
    /\ UnknownActionStepped /\ IsCall("refund_all") /\ steps = 3
    /\ last.reward = 1 /\ env.reward = 1
    /\ data # load_data /\ Unchanged
    /\ env.phase = "ACTIVE"

------------------------------------------------------------------------------
\* the tools the claim names
ValidatingTools ==
    {"book_reservation", "cancel_reservation", "send_certificate",
     "get_user_details", "get_reservation_details"}

\* the last call was a step with one of these tools that returned an "Error: ..."
\* string
ToolErrorStepped ==
    IsStep /\ last.op \in ValidatingTools /\ last.res.kind = "error"

(* C20: when book_reservation, cancel_reservation, send_certificate,
   get_user_details or get_reservation_details returns a validation error (a
   string that starts with "Error:"), the Database is left as it was and the
   episode continues: the step returns done = false, the Environment stays ACTIVE
   and the error text is the observation of the step. *)
C20_ToolErrorKeepsDatabase ==
    ToolErrorStepped =>
        /\ Unchanged
        /\ ~env.done /\ env.phase = "ACTIVE"
        /\ Len(env.log) > 0 /\ env.log[Len(env.log)] = last.res

\* a booking whose payment does not add up, on a Database that an earlier
\* booking of the episode had changed
C20_Witness ==
    /\ ToolErrorStepped /\ IsCall("book_reservation")
    /\ ErrorIs("Error: payment amount does not add up")
    /\ booked = 1 /\ data # load_data /\ Unchanged
    /\ ~env.done

------------------------------------------------------------------------------
(* C21: a Task is never mutated by running an episode: after any resets and steps
   every action of every Task of the catalog, with the payment_methods and
   passengers lists of its kwargs, equals its value at load time. *)
C21_TasksStayAsLoaded == env.tasks = Tasks

------------------------------------------------------------------------------
\* the coroutine is between its env.reset and its last env.step
InProgress(s) == loop.pc[s] \in {"completion", "step"}

(* C22: the episodes of the samples that one solver drives on its one Env
   instance do not overlap: while a sample is between its reset and its last
   step, no other sample is, the last reset of the Environment is its own, and
   the Environment's Task, its trace and the Database are what this sample's own
   reset and steps made of the seed, so that it observes neither a mutation nor a
   reset made for another sample. *)
C22_EpisodesDoNotOverlap ==
    \A s \in Samples :
        InProgress(s) =>
            /\ \A t \in Samples \ {s} : ~InProgress(t)
            /\ loop.owner = s
            /\ env.task_index = TaskIndexOf(s)
            /\ env.trace = loop.trace[s]
            /\ data = EpisodeData(loop.trace[s], 1, load_data)

\* the second sample's episode starts from the seed after the first sample's
\* episode had changed the Database
C22_Witness ==
    /\ IsCall("reset") /\ loop.owner = 2 /\ InProgress(2)
    /\ Ended(1) /\ loop.stepcalls[1] = MaxLoopSteps
    /\ last.pre.reservations # load_data.reservations
    /\ data = load_data

------------------------------------------------------------------------------
\* the last call on the Environment was a step of coroutine s
LastStepOf(s) == IsStep /\ loop.owner = s /\ loop.stepcalls[s] > 0

\* env.reset once and before any step, at most max_steps steps, none after a step
\* that returned done
LoopCallsInOrder ==
    \A s \in Samples :
        /\ loop.resets[s] = IF loop.pc[s] = "pending" THEN 0 ELSE 1
        /\ loop.stepcalls[s] > 0 => loop.resets[s] = 1
        /\ loop.stepcalls[s] <= MaxLoopSteps
        /\ loop.done[s] => loop.pc[s] = "returned"
        /\ loop.stepcalls[s] = 0 => ~loop.metadata[s].set

\* the reward in the metadata is the one the last step executed returned
RewardOfLastStepRecorded ==
    \A s \in Samples :
        LastStepOf(s) =>
            /\ last.res.kind # "fault"
            /\ loop.metadata[s] = [set |-> TRUE, reward |-> env.reward]

\* the same, for the last step that returned: a step that raised leaves the
\* metadata as the step before it left them
RewardOfLastReturnedStepRecorded ==
    \A s \in Samples :
        LastStepOf(s) =>
            IF last.res.kind # "fault"
              THEN loop.metadata[s] = [set |-> TRUE, reward |-> env.reward]
              ELSE /\ loop.pc[s] = "raised"
                   /\ loop.metadata[s] = [set |-> loop.stepcalls[s] > 1, reward |-> last.reward]

AllEnded == \A s \in Samples : Ended(s)

(* C23: the driving loop calls env.reset exactly once before any step, calls
   env.step at most max_steps times and never after a step that returned
   done = true, it always terminates, and the reward in the sample metadata is the
   reward returned by the last step executed. *)
C23_LoopResetsOnceStepsBoundedAndRecordsReward ==
    [](LoopCallsInOrder /\ RewardOfLastStepRecorded) /\ <>[]AllEnded

------------------------------------------------------------------------------
\* the passengers of the reservations made since load, among the first i IDs of
\* the pool, that hold the cabin on the flight and date
RECURSIVE PassengersBooked(_, _, _, _, _)
PassengersBooked(d, flight_number, date, cabin, i) ==
    IF i = 0 THEN 0
    ELSE PassengersBooked(d, flight_number, date, cabin, i - 1)
         + (IF /\ Pool[i] \in DOMAIN d.reservations
               /\ Pool[i] \notin DOMAIN load_data.reservations
               /\ d.reservations[Pool[i]].cabin = cabin
               /\ \E j \in 1..Len(d.reservations[Pool[i]].flights) :
                      /\ d.reservations[Pool[i]].flights[j].flight_number = flight_number
                      /\ d.reservations[Pool[i]].flights[j].date = date
            THEN Len(d.reservations[Pool[i]].passengers)
            ELSE 0)

\* the seats of the cabin on every leg of the last call went down by the number of
\* passengers
SeatsTaken ==
    \A i \in 1..Len(last.args.flights) :
        LET leg == last.args.flights[i] IN
        data.flights[leg.flight_number].dates[leg.date].available_seats[last.args.cabin]
            = last.pre.flights[leg.flight_number].dates[leg.date].available_seats[last.args.cabin]
              - Len(last.args.passengers)

\* no cabin of an available flight and date of the seed holds more passengers than
\* the seed has seats for
NeverOverbooked ==
    \A flight_number \in DOMAIN load_data.flights :
        \A date \in DOMAIN load_data.flights[flight_number].dates :
            load_data.flights[flight_number].dates[date].status = "available" =>
                \A cabin \in DOMAIN load_data.flights[flight_number].dates[date].available_seats :
                    PassengersBooked(data, flight_number, date, cabin, Len(Pool))
                        <= load_data.flights[flight_number].dates[date].available_seats[cabin]

(* C24: after a successful book_reservation the available seats of the booked
   cabin on each booked flight and date are reduced by the number of passengers,
   and the passengers booked on a flight, date and cabin never exceed the seats
   the seed has there. *)
C24_BookingTakesSeats ==
    /\ IsCall("book_reservation") /\ Succeeded => SeatsTaken
    /\ NeverOverbooked

------------------------------------------------------------------------------
\* the text after the last "Action:" of the content parsed is valid JSON: an
\* object with the members "name" and "arguments"
ActionTextValid ==
    LET parsed == json_loads(strip(AfterLastMarker(last.args.content, Len(last.args.content))))
    IN /\ parsed.ok
       /\ parsed.v.t = "dict"
       /\ {"\"name\"", "\"arguments\""} \subseteq DOMAIN parsed.v.members

\* what the claim says of a call that returned
ReturnedActionAsStated ==
    /\ last.res.fallback <=> ~ActionTextValid
    /\ last.res.fallback =>
          last.res.action = Action(RESPOND_ACTION_NAME, [content |-> last.args.content])
    /\ Unchanged

(* C25: parse_react_response is total: for every content it returns an Action and
   never raises; the Action is a tool action exactly when the text after the last
   "Action:" is valid JSON containing "name" and "arguments", and otherwise the
   respond fallback that carries the whole content; the Database is not changed. *)
C25_ParseReactResponseIsTotal ==
    IsCall("parse_react_response") =>
        /\ last.res.kind = "action"
        /\ ReturnedActionAsStated

------------------------------------------------------------------------------
(* C26: the balance of every gift card of every user is non-negative after any
   sequence of calls, also after a booking whose payment_methods name the same
   payment_id more than once. *)
C26_GiftCardBalancesStayNonNegative ==
    \A u \in DOMAIN data.users :
        \A payment_id \in DOMAIN data.users[u].payment_methods :
            data.users[u].payment_methods[payment_id].source = "gift_card" =>
                data.users[u].payment_methods[payment_id].amount >= 0

------------------------------------------------------------------------------
\* no reservation ID is listed twice in the user's reservations
ListedOnce(u) ==
    \A i, j \in 1..Len(data.users[u].reservations) :
        data.users[u].reservations[i] = data.users[u].reservations[j] => i = j

\* every reservation ID the user lists is the ID of a record of that user
ListedAreOwn(u) ==
    \A i \in 1..Len(data.users[u].reservations) :
        /\ data.users[u].reservations[i] \in DOMAIN data.reservations
        /\ data.reservations[data.users[u].reservations[i]].user_id = u

(* C27: referential consistency: every reservation ID in a user's reservations
   appears there at most once and resolves to a reservation record whose user_id
   is that user, also after more than three successful bookings and after
   bookings by different users. *)
C27_UserReservationsAreConsistent ==
    \A u \in DOMAIN data.users : ListedOnce(u) /\ ListedAreOwn(u)

------------------------------------------------------------------------------
\* 2 to the power k
RECURSIVE Pow2(_)
Pow2(k) == IF k = 0 THEN 1 ELSE 2 * Pow2(k - 1)

(* C28: after k >= 1 successful cancel_reservation calls on a reservation whose
   payment_history had n entries, the history has n * 2^k entries, its first n
   entries are the original ones, and the amounts of all entries sum to 0. *)
C28_HistoryDoublesWithEveryCancel ==
    \A r \in DOMAIN data.reservations :
        Ledger.cancels[r] >= 1 =>
            LET history == data.reservations[r].payment_history
                n == Len(Ledger.originals[r])
            IN /\ Len(history) = n * Pow2(Ledger.cancels[r])
               /\ SubSeq(history, 1, n) = Ledger.originals[r]
               /\ SumAmounts(history) = 0

\* the seed reservation (two payments) was cancelled three times
C28_Witness ==
    /\ IsCall("cancel_reservation") /\ Succeeded
    /\ Ledger.cancels["ZFA04Y"] = 3
    /\ Len(data.reservations["ZFA04Y"].payment_history) = 16

------------------------------------------------------------------------------
\* the fields of a reservation record other than the two that a cancellation writes
KeptFields(reservation) == DOMAIN reservation \ {"payment_history", "status"}

(* C29: cancel_reservation changes nothing but the payment_history and the status
   of the reservation it is called for: the users, the flights and every other
   reservation are as before the call, no reservation is added or removed, and
   the other fields of the cancelled reservation keep their values. *)
C29_CancelTouchesOnlyItsReservation ==
    IsCall("cancel_reservation") =>
        /\ data.users = last.pre.users
        /\ data.flights = last.pre.flights
        /\ DOMAIN data.reservations = DOMAIN last.pre.reservations
        /\ \A r \in DOMAIN last.pre.reservations :
              IF r = last.args.reservation_id
                THEN /\ KeptFields(data.reservations[r]) = KeptFields(last.pre.reservations[r])
                     /\ \A f \in KeptFields(last.pre.reservations[r]) :
                           data.reservations[r][f] = last.pre.reservations[r][f]
                ELSE data.reservations[r] = last.pre.reservations[r]

\* a reservation that its user lists and that was paid in part with a gift card
\* was cancelled, while another reservation exists
C29_Witness ==
    /\ IsCall("cancel_reservation") /\ Succeeded
    /\ last.args.reservation_id = "ZFA04Y"
    /\ data.reservations["ZFA04Y"] # last.pre.reservations["ZFA04Y"]
    /\ "HATHAT" \in DOMAIN data.reservations
    /\ data.users["ann_lee_1"].reservations = <<"ZFA04Y", "HATHAT">>

------------------------------------------------------------------------------
\* the certificate IDs that a reservation of the user in d was paid with: none is
\* in the seed, so each was issued to the user in the episode and spent since
SpentCertificates(user_id, d) ==
    { CertificateIds[i] : i \in
        { i \in 1..Len(CertificateIds) :
            \E r \in DOMAIN d.reservations :
                /\ d.reservations[r].user_id = user_id
                /\ \E j \in 1..Len(d.reservations[r].payment_history) :
                      d.reservations[r].payment_history[j].payment_id = CertificateIds[i] } }

\* the certificate IDs issued to the user in the episode, as far as d tells: those
\* the user holds and those the user has spent
IssuedCertificates(user_id, d) ==
    (DOMAIN d.users[user_id].payment_methods \cap {CertificateIds[i] : i \in 1..Len(CertificateIds)})
      \cup SpentCertificates(user_id, d)

(* C30: within an episode send_certificate never issues to a user a certificate
   ID that was issued to that user earlier in the episode, also when a booking
   has paid with the earlier certificate and so removed it. *)
C30_CertificateIdsAreNotReissued ==
    IsCall("send_certificate") /\ last.res.kind = "text" =>
        \A payment_id \in DOMAIN data.users[last.args.user_id].payment_methods
                             \ DOMAIN last.pre.users[last.args.user_id].payment_methods :
            payment_id \notin IssuedCertificates(last.args.user_id, last.pre)

====
